---- MODULE Spec2Model ----
(***************************************************************************)
(* Web Integrity Guard: the content script (src/src/contentScript.ts,      *)
(* lines 1-646) and the background service worker (lines 648-1281).        *)
(*                                                                         *)
(* Strings are sequences of one-character strings, so that splitting,      *)
(* trimming, pattern tests and query-string decoding are computed as the   *)
(* code computes them.  The fixed URL literals of parseSourceDescriptor    *)
(* are kept as single elements.                                            *)
(***************************************************************************)
EXTENDS Integers, Sequences, FiniteSets, TLC

(***************************************************************************)
(* Strings                                                                 *)
(***************************************************************************)
\* null for a descriptor, a source descriptor or a response
NULL == [null |-> TRUE]
\* null for a string (no real string holds this element)
NoString == <<"<null>">>

UpperChars == <<"A","B","C","D","E","F","G","H","I","J","K","L","M",
                "N","O","P","Q","R","S","T","U","V","W","X","Y","Z">>
LowerChars == <<"a","b","c","d","e","f","g","h","i","j","k","l","m",
                "n","o","p","q","r","s","t","u","v","w","x","y","z">>
DigitChars == <<"0","1","2","3","4","5","6","7","8","9">>

Range(s) == {s[i] : i \in DOMAIN s}

AlphaNum == Range(UpperChars) \cup Range(LowerChars) \cup Range(DigitChars)

\* String.prototype.toLowerCase, one character
ToLowerChar(c) ==
  IF \E i \in DOMAIN UpperChars : UpperChars[i] = c
  THEN LowerChars[CHOOSE i \in DOMAIN UpperChars : UpperChars[i] = c]
  ELSE c

ToLowerCase(s) == [i \in DOMAIN s |-> ToLowerChar(s[i])]

\* String.prototype.slice(n): the string without its first n characters
Slice(s, n) == IF n >= Len(s) THEN <<>> ELSE SubSeq(s, n + 1, Len(s))

\* String.prototype.indexOf for one character, 1-based; 0 when absent
IndexOf(s, c) ==
  IF \E i \in DOMAIN s : s[i] = c
  THEN CHOOSE i \in DOMAIN s : s[i] = c /\ \A j \in 1..(i - 1) : s[j] # c
  ELSE 0

Includes(s, c) == \E i \in DOMAIN s : s[i] = c

\* String.prototype.startsWith
StartsWith(s, p) == Len(s) >= Len(p) /\ SubSeq(s, 1, Len(p)) = p

\* String.prototype.split(sep) for a one-character separator: every piece
RECURSIVE Split(_, _)
Split(s, sep) ==
  IF IndexOf(s, sep) = 0
  THEN <<s>>
  ELSE <<SubSeq(s, 1, IndexOf(s, sep) - 1)>> \o Split(Slice(s, IndexOf(s, sep)), sep)

\* String.prototype.split(sep, limit): the first `limit` pieces of the full split
SplitLimit(s, sep, limit) ==
  IF Len(Split(s, sep)) <= limit THEN Split(s, sep) ELSE SubSeq(Split(s, sep), 1, limit)

WhiteSpace == {" "}

RECURSIVE TrimStart(_)
TrimStart(s) == IF s # <<>> /\ s[1] \in WhiteSpace THEN TrimStart(Tail(s)) ELSE s

RECURSIVE TrimEnd(_)
TrimEnd(s) ==
  IF s # <<>> /\ s[Len(s)] \in WhiteSpace THEN TrimEnd(SubSeq(s, 1, Len(s) - 1)) ELSE s

\* String.prototype.trim
Trim(s) == TrimEnd(TrimStart(s))

\* concatenation of a sequence of strings with a separator (Array.prototype.join)
RECURSIVE Join(_, _)
Join(parts, sep) ==
  IF parts = <<>> THEN <<>>
  ELSE IF Len(parts) = 1 THEN parts[1]
  ELSE parts[1] \o sep \o Join(Tail(parts), sep)

(***************************************************************************)
(* URLSearchParams (application/x-www-form-urlencoded), as used on the     *)
(* fragment by parseIntegrityDescriptor and applyIntegrityFragment         *)
(***************************************************************************)
\* the percent codes of the characters of the model's alphabet that have one
PercentCodes == { <<" ", "2", "0">>, <<"#", "2", "3">>, <<"%", "2", "5">>,
                  <<"&", "2", "6">>, <<"*", "2", "A">>, <<"+", "2", "B">>,
                  <<"/", "2", "F">>, <<":", "3", "A">>, <<"=", "3", "D">>,
                  <<"?", "3", "F">> }

ToUpperChar(c) ==
  IF \E i \in DOMAIN LowerChars : LowerChars[i] = c
  THEN UpperChars[CHOOSE i \in DOMAIN LowerChars : LowerChars[i] = c]
  ELSE c

IsPercentTriple(s) ==
  /\ Len(s) >= 3
  /\ s[1] = "%"
  /\ \E e \in PercentCodes : e[2] = s[2] /\ e[3] = ToUpperChar(s[3])

\* percent-decoding: %XX becomes the character, anything else is kept
RECURSIVE PercentDecode(_)
PercentDecode(s) ==
  IF s = <<>> THEN <<>>
  ELSE IF IsPercentTriple(s)
  THEN <<(CHOOSE e \in PercentCodes : e[2] = s[2] /\ e[3] = ToUpperChar(s[3]))[1]>>
         \o PercentDecode(Slice(s, 3))
  ELSE <<s[1]>> \o PercentDecode(Tail(s))

PlusToSpace(s) == [i \in DOMAIN s |-> IF s[i] = "+" THEN " " ELSE s[i]]

\* one name=value piece of the query string
ParsePair(piece) ==
  IF IndexOf(piece, "=") = 0
  THEN [name |-> PercentDecode(PlusToSpace(piece)), value |-> <<>>]
  ELSE [name  |-> PercentDecode(PlusToSpace(SubSeq(piece, 1, IndexOf(piece, "=") - 1))),
        value |-> PercentDecode(PlusToSpace(Slice(piece, IndexOf(piece, "="))))]

RECURSIVE ParsePieces(_)
ParsePieces(pieces) ==
  IF pieces = <<>> THEN <<>>
  ELSE IF pieces[1] = <<>> THEN ParsePieces(Tail(pieces))
  ELSE <<ParsePair(pieces[1])>> \o ParsePieces(Tail(pieces))

\* new URLSearchParams(init): the list of decoded name/value pairs
URLSearchParams(init) ==
  ParsePieces(Split(IF init # <<>> /\ init[1] = "?" THEN Tail(init) ELSE init, "&"))

\* URLSearchParams.prototype.get: the first value of the name, or null
ParamsGet(params, name) ==
  IF \E i \in DOMAIN params : params[i].name = name
  THEN params[CHOOSE i \in DOMAIN params :
                /\ params[i].name = name
                /\ \A j \in 1..(i - 1) : params[j].name # name].value
  ELSE NoString

RECURSIVE DropNamed(_, _)
DropNamed(params, name) ==
  IF params = <<>> THEN <<>>
  ELSE IF params[1].name = name THEN DropNamed(Tail(params), name)
  ELSE <<params[1]>> \o DropNamed(Tail(params), name)

\* URLSearchParams.prototype.set: the first pair of the name gets the value and
\* the others go; without such a pair one is appended
ParamsSet(params, name, value) ==
  IF \E i \in DOMAIN params : params[i].name = name
  THEN LET first == CHOOSE i \in DOMAIN params :
                      /\ params[i].name = name
                      /\ \A j \in 1..(i - 1) : params[j].name # name
       IN SubSeq(params, 1, first - 1)
            \o <<[name |-> name, value |-> value]>>
            \o DropNamed(Slice(params, first), name)
  ELSE Append(params, [name |-> name, value |-> value])

\* the urlencoded serializer, one character
SerializeChar(c) ==
  IF c \in AlphaNum \cup {"*", "-", ".", "_"} THEN <<c>>
  ELSE IF c = " " THEN <<"+">>
  ELSE IF \E e \in PercentCodes : e[1] = c
  THEN LET e == CHOOSE e \in PercentCodes : e[1] = c IN <<"%", e[2], e[3]>>
  ELSE <<c>>

RECURSIVE SerializeString(_)
SerializeString(s) ==
  IF s = <<>> THEN <<>> ELSE SerializeChar(s[1]) \o SerializeString(Tail(s))

\* URLSearchParams.prototype.toString
RECURSIVE ParamsToString(_)
ParamsToString(params) ==
  IF params = <<>> THEN <<>>
  ELSE SerializeString(params[1].name) \o <<"=">> \o SerializeString(params[1].value)
         \o (IF Len(params) = 1 THEN <<>> ELSE <<"&">> \o ParamsToString(Tail(params)))

(***************************************************************************)
(* Descriptor parser (content script)                                      *)
(***************************************************************************)
SHA256 == <<"s","h","a","2","5","6">>
SHA384 == <<"s","h","a","3","8","4">>
SHA512 == <<"s","h","a","5","1","2">>

K_integrity == <<"i","n","t","e","g","r","i","t","y">>
K_integrity_src == K_integrity \o <<"-","s","r","c">>

\* normalizeAlgorithm that answers with the text as it was written
CsNormalizeAlgorithm_AsWritten(value) ==
  IF ToLowerCase(Trim(value)) \in {SHA256, SHA384, SHA512}
  THEN Trim(value)
  ELSE NoString

\* content script normalizeAlgorithm: the lookup of the trimmed lower-cased value
CsNormalizeAlgorithm(value) ==
  IF ToLowerCase(Trim(value)) \in {SHA256, SHA384, SHA512}
  THEN ToLowerCase(Trim(value))
  ELSE NoString

\* /^[A-Za-z0-9-_]+$/u
UrlSafeChars == AlphaNum \cup {"-", "_"}

inferEncoding(digest) ==
  LET urlSafe == digest # <<>> /\ \A i \in DOMAIN digest : digest[i] \in UrlSafeChars
      hasUrlOnlyChars == ~Includes(digest, "+") /\ ~Includes(digest, "/")
  IN IF urlSafe /\ hasUrlOnlyChars THEN "base64url" ELSE "base64"

GITHUB_COM_SLASH == <<"g","i","t","h","u","b",".","c","o","m","/">>

\* parseSourceDescriptor without the test of the provider code
parseSourceDescriptor_AnyProvider(value) ==
  IF value = NoString \/ value = <<>> THEN NULL
  ELSE
    LET raw   == Split(value, ":")
        parts == [i \in DOMAIN raw |-> Trim(raw[i])]
    IN IF Len(parts) # 4 THEN NULL
       ELSE IF \E i \in 1..4 : parts[i] = <<>> THEN NULL
       ELSE
         LET cleanRepo == IF StartsWith(parts[2], GITHUB_COM_SLASH)
                          THEN Slice(parts[2], Len(GITHUB_COM_SLASH))
                          ELSE parts[2]
             portalUrl == <<"https://github.com", "/">> \o cleanRepo
                            \o <<"/actions/runs/">> \o parts[3]
         IN IF ~Includes(cleanRepo, "/") THEN NULL
            ELSE [provider  |-> "github",
                  repo      |-> cleanRepo,
                  runId     |-> parts[3],
                  jobId     |-> parts[4],
                  portalUrl |-> portalUrl,
                  logUrl    |-> portalUrl \o <<"/job/">> \o parts[4]]

parseSourceDescriptor(value) ==
  IF value = NoString \/ value = <<>> THEN NULL
  ELSE
    LET raw   == Split(value, ":")
        parts == [i \in DOMAIN raw |-> Trim(raw[i])]
    IN IF Len(parts) # 4 THEN NULL
       ELSE IF \E i \in 1..4 : parts[i] = <<>> THEN NULL
       ELSE IF parts[1] # <<"g","h">> /\ parts[1] # <<"g","i","t","h","u","b">> THEN NULL
       ELSE
         LET cleanRepo == IF StartsWith(parts[2], GITHUB_COM_SLASH)
                          THEN Slice(parts[2], Len(GITHUB_COM_SLASH))
                          ELSE parts[2]
             portalUrl == <<"https://github.com", "/">> \o cleanRepo
                            \o <<"/actions/runs/">> \o parts[3]
         IN IF ~Includes(cleanRepo, "/") THEN NULL
            ELSE [provider  |-> "github",
                  repo      |-> cleanRepo,
                  runId     |-> parts[3],
                  jobId     |-> parts[4],
                  portalUrl |-> portalUrl,
                  logUrl    |-> portalUrl \o <<"/job/">> \o parts[4]]

\* the descriptor, or NULL; `hash` is window.location.hash, "#" included
parseIntegrityDescriptor(hash) ==
  IF Len(hash) <= 1 THEN NULL
  ELSE
    LET params         == URLSearchParams(Slice(hash, 1))
        integrityParam == ParamsGet(params, K_integrity)
    IN IF integrityParam = NoString \/ integrityParam = <<>> THEN NULL
       ELSE
         LET pieces == SplitLimit(integrityParam, "-", 2)
         IN IF Len(pieces) < 2 THEN NULL
            ELSE IF pieces[1] = <<>> \/ pieces[2] = <<>> THEN NULL
            ELSE IF CsNormalizeAlgorithm(pieces[1]) = NoString THEN NULL
            ELSE [algorithm |-> CsNormalizeAlgorithm(pieces[1]),
                  encoding  |-> inferEncoding(pieces[2]),
                  digest    |-> Trim(pieces[2]),
                  source    |-> parseSourceDescriptor(ParamsGet(params, K_integrity_src))]

\* currentDescriptor?.source ?? null
SourceOf(descriptor) == IF descriptor = NULL THEN NULL ELSE descriptor.source

DEFAULT_ALGORITHM == SHA256
DEFAULT_ENCODING == "base64url"

sanitizeAlgorithmToken(value) ==
  LET lower == ToLowerCase(value)
      clean == SelectSeq(lower, LAMBDA c : c \in Range(LowerChars) \cup Range(DigitChars))
  IN IF clean \in {SHA256, SHA384, SHA512} THEN clean ELSE DEFAULT_ALGORITHM

\* the fragment after applyIntegrityFragment(algorithm, encoding, digest) on a page
\* whose fragment is `hash`; the encoding is not written into the fragment
applyIntegrityFragment(hash, algorithm, digest) ==
  LET hashPayload == IF hash # <<>> /\ hash[1] = "#" THEN Tail(hash) ELSE hash
      params      == ParamsSet(URLSearchParams(hashPayload), K_integrity,
                               sanitizeAlgorithmToken(algorithm) \o <<"-">> \o digest)
      nextHash    == ParamsToString(params)
  IN IF nextHash = <<>> THEN <<>> ELSE <<"#">> \o nextHash

(***************************************************************************)
(* Digest codec (background)                                               *)
(***************************************************************************)
WEBCRYPTO_SHA256 == <<"S","H","A","-","2","5","6">>
WEBCRYPTO_SHA384 == <<"S","H","A","-","3","8","4">>
WEBCRYPTO_SHA512 == <<"S","H","A","-","5","1","2">>

\* SUPPORTED_ALGORITHMS[key] ?? null
SUPPORTED_ALGORITHMS(key) ==
  IF key = SHA256 THEN WEBCRYPTO_SHA256
  ELSE IF key = SHA384 THEN WEBCRYPTO_SHA384
  ELSE IF key = SHA512 THEN WEBCRYPTO_SHA512
  ELSE NoString

normalizeAlgorithm(input) == SUPPORTED_ALGORITHMS(ToLowerCase(Trim(input)))

Base64Chars == AlphaNum \cup {"+", "/", "="}

\* the number of "=" a string ends with
RECURSIVE TrailingEquals(_)
TrailingEquals(s) ==
  IF s # <<>> /\ s[Len(s)] = "=" THEN 1 + TrailingEquals(SubSeq(s, 1, Len(s) - 1)) ELSE 0

\* replace(/=+$/u, "")
StripTrailingEquals(s) == SubSeq(s, 1, Len(s) - TrailingEquals(s))

\* /^[A-Za-z0-9+/=]+$/u
base64Pattern(s) == s # <<>> /\ \A i \in DOMAIN s : s[i] \in Base64Chars

\* /^[A-Za-z0-9-_]+=?=?$/u
base64UrlPattern(s) ==
  \E pad \in 0..2 :
    /\ pad <= Len(s) - 1
    /\ \A i \in (Len(s) - pad + 1)..Len(s) : s[i] = "="
    /\ \A i \in 1..(Len(s) - pad) : s[i] \in UrlSafeChars

\* normalizeDigest that leaves the padding of a base64url digest in place
normalizeDigest_KeepsPadding(digest, encoding) ==
  LET trimmed == Trim(digest)
  IN IF trimmed = <<>> THEN NoString
     ELSE IF encoding = "base64"
     THEN (IF base64Pattern(trimmed) THEN trimmed ELSE NoString)
     ELSE (IF base64UrlPattern(trimmed) THEN trimmed ELSE NoString)

normalizeDigest(digest, encoding) ==
  LET trimmed == Trim(digest)
  IN IF trimmed = <<>> THEN NoString
     ELSE IF encoding = "base64"
     THEN (IF base64Pattern(trimmed) THEN trimmed ELSE NoString)
     ELSE (IF base64UrlPattern(trimmed) THEN StripTrailingEquals(trimmed) ELSE NoString)

\* the base64 alphabet, by value
Base64Alphabet == UpperChars \o LowerChars \o DigitChars \o <<"+", "/">>

B64(v) == Base64Alphabet[v + 1]

\* btoa over the bytes of the buffer
RECURSIVE arrayBufferToBase64(_)
arrayBufferToBase64(bytes) ==
  IF bytes = <<>> THEN <<>>
  ELSE IF Len(bytes) = 1
  THEN <<B64(bytes[1] \div 4), B64((bytes[1] % 4) * 16), "=", "=">>
  ELSE IF Len(bytes) = 2
  THEN <<B64(bytes[1] \div 4), B64((bytes[1] % 4) * 16 + bytes[2] \div 16),
         B64((bytes[2] % 16) * 4), "=">>
  ELSE <<B64(bytes[1] \div 4), B64((bytes[1] % 4) * 16 + bytes[2] \div 16),
         B64((bytes[2] % 16) * 4 + bytes[3] \div 64), B64(bytes[3] % 64)>>
         \o arrayBufferToBase64(Slice(bytes, 3))

\* encodeDigest that leaves the padding of btoa in place
encodeDigest_KeepsPadding(buffer, encoding) ==
  LET base64 == arrayBufferToBase64(buffer)
      swapped == [i \in DOMAIN base64 |->
                    IF base64[i] = "+" THEN "-"
                    ELSE IF base64[i] = "/" THEN "_"
                    ELSE base64[i]]
  IN IF encoding = "base64" THEN base64 ELSE swapped

encodeDigest(buffer, encoding) ==
  LET base64 == arrayBufferToBase64(buffer)
      swapped == [i \in DOMAIN base64 |->
                    IF base64[i] = "+" THEN "-"
                    ELSE IF base64[i] = "/" THEN "_"
                    ELSE base64[i]]
  IN IF encoding = "base64" THEN base64 ELSE StripTrailingEquals(swapped)

\* mismatch |= a.charCodeAt(i) ^ b.charCodeAt(i), over every position
RECURSIVE MismatchFrom(_, _, _)
MismatchFrom(a, b, i) ==
  IF i > Len(a) THEN FALSE ELSE (a[i] # b[i]) \/ MismatchFrom(a, b, i + 1)

timingSafeEquals(a, b) ==
  IF Len(a) # Len(b) THEN FALSE ELSE ~MismatchFrom(a, b, 1)

\* a comparison loop that leaves at the first position that differs
RECURSIVE InspectedFrom_FirstMismatch(_, _, _)
InspectedFrom_FirstMismatch(a, b, i) ==
  IF i > Len(a) THEN 0
  ELSE IF a[i] # b[i] THEN 1
  ELSE 1 + InspectedFrom_FirstMismatch(a, b, i + 1)

\* the positions that the loop of timingSafeEquals reads from position i on:
\* for (let i = 0; i < a.length; i += 1), without break or return
RECURSIVE InspectedFrom(_, _, _)
InspectedFrom(a, b, i) ==
  IF i > Len(a) THEN 0 ELSE 1 + InspectedFrom(a, b, i + 1)

\* timingSafeEquals with the loop that leaves at the first difference
InspectedPositions_FirstMismatch(a, b) ==
  IF Len(a) # Len(b) THEN 0 ELSE InspectedFrom_FirstMismatch(a, b, 1)

\* the number of character positions timingSafeEquals reads before it returns
InspectedPositions(a, b) ==
  IF Len(a) # Len(b) THEN 0 ELSE InspectedFrom(a, b, 1)

(***************************************************************************)
(* Engines (background): what the three fetch-and-check handlers return    *)
(* for a request and the outcome of its fetch                              *)
(***************************************************************************)
NumPayloads == 2

\* the resource bodies a server may answer with
Payloads == 1..NumPayloads

\* crypto.subtle.digest(algorithm, payload): one fixed buffer per algorithm and body
Digest(algorithm, payload) ==
  (IF payload = 1 THEN <<105, 183, 29>>
   ELSE IF payload = 2 THEN <<107, 231>>
   ELSE <<250 + payload>>)
  \o (IF algorithm = WEBCRYPTO_SHA256 THEN <<>>
      ELSE IF algorithm = WEBCRYPTO_SHA384 THEN <<3>> ELSE <<5>>)

HTTP_OK == 200
HTTP_UNAUTHORIZED == 401
HTTP_NOT_FOUND == 404

\* Response.ok
ResponseOk(response) == response.status >= 200 /\ response.status <= 299

\* what fetch(targetUrl) of a resource can give: a rejection or a response
ResourceFetches ==
  {[kind |-> "error"]}
    \cup {[kind |-> "response", status |-> HTTP_OK, body |-> p] : p \in Payloads}
    \cup {[kind |-> "response", status |-> HTTP_NOT_FOUND, body |-> 1]}

\* handleVerification that reports a mismatch as a failure
handleVerification_MismatchFails(message, fetched) ==
  LET normalizedAlgorithm == normalizeAlgorithm(message.algorithm)
      normalizedDigest    == normalizeDigest(message.expectedDigest, message.encoding)
      actualDigest        == encodeDigest(Digest(normalizedAlgorithm, fetched.body),
                                          message.encoding)
  IN IF normalizedAlgorithm = NoString
     THEN [ok |-> FALSE, error |-> "Unsupported algorithm"]
     ELSE IF normalizedDigest = NoString
     THEN [ok |-> FALSE, error |-> "Digest is missing or malformed."]
     ELSE IF fetched.kind = "error"
     THEN [ok |-> FALSE, error |-> "fetch rejected"]
     ELSE IF ~ResponseOk(fetched)
     THEN [ok |-> FALSE, error |-> "Failed to fetch resource", status |-> fetched.status]
     ELSE IF ~timingSafeEquals(actualDigest, normalizedDigest)
     THEN [ok |-> FALSE, error |-> "Digest mismatch"]
     ELSE [ok |-> TRUE,
           matches      |-> TRUE,
           actualDigest |-> actualDigest,
           algorithm    |-> normalizedAlgorithm,
           encoding     |-> message.encoding]

handleVerification(message, fetched) ==
  LET normalizedAlgorithm == normalizeAlgorithm(message.algorithm)
      normalizedDigest    == normalizeDigest(message.expectedDigest, message.encoding)
      actualDigest        == encodeDigest(Digest(normalizedAlgorithm, fetched.body),
                                          message.encoding)
  IN IF normalizedAlgorithm = NoString
     THEN [ok |-> FALSE, error |-> "Unsupported algorithm"]
     ELSE IF normalizedDigest = NoString
     THEN [ok |-> FALSE, error |-> "Digest is missing or malformed."]
     ELSE IF fetched.kind = "error"
     THEN [ok |-> FALSE, error |-> "fetch rejected"]
     ELSE IF ~ResponseOk(fetched)
     THEN [ok |-> FALSE, error |-> "Failed to fetch resource", status |-> fetched.status]
     ELSE [ok |-> TRUE,
           matches      |-> timingSafeEquals(actualDigest, normalizedDigest),
           actualDigest |-> actualDigest,
           algorithm    |-> normalizedAlgorithm,
           encoding     |-> message.encoding]

\* handleVerification that fetches whatever the request
VerificationFetches_Always(message) == TRUE

\* handleVerification answers before any fetch when the request is invalid
VerificationFetches(message) ==
  /\ normalizeAlgorithm(message.algorithm) # NoString
  /\ normalizeDigest(message.expectedDigest, message.encoding) # NoString

handleDigestGeneration(message, fetched) ==
  LET normalizedAlgorithm == normalizeAlgorithm(message.algorithm)
  IN IF normalizedAlgorithm = NoString
     THEN [ok |-> FALSE, error |-> "Unsupported algorithm"]
     ELSE IF fetched.kind = "error"
     THEN [ok |-> FALSE, error |-> "fetch rejected"]
     ELSE IF ~ResponseOk(fetched)
     THEN [ok |-> FALSE, error |-> "Failed to fetch resource", status |-> fetched.status]
     ELSE [ok |-> TRUE,
           digest    |-> encodeDigest(Digest(normalizedAlgorithm, fetched.body),
                                      message.encoding),
           algorithm |-> normalizedAlgorithm,
           encoding  |-> message.encoding]

GenerationFetches(message) == normalizeAlgorithm(message.algorithm) # NoString

\* the origins of the URLs of this model; a URL is its origin and then its characters
Origins == {"https://site.test", "https://github.com"}

\* new URL(inputUrl) does not throw
CanParse(inputUrl) == inputUrl # <<>> /\ inputUrl[1] \in Origins

\* URL.prototype.toString after parsed.hash = "": no "#" and nothing after it, and
\* "/" for an empty path
WithoutHash(inputUrl) ==
  LET kept == IF Includes(inputUrl, "#")
              THEN SubSeq(inputUrl, 1, IndexOf(inputUrl, "#") - 1)
              ELSE inputUrl
  IN IF Len(kept) = 1 THEN kept \o <<"/">>
     ELSE IF kept[2] = "?" THEN <<kept[1], "/">> \o Slice(kept, 1)
     ELSE kept

stripFragment(inputUrl) ==
  IF CanParse(inputUrl) THEN WithoutHash(inputUrl) ELSE inputUrl

\* fetch(targetUrl, {cache, credentials}) of handleVerification
VerificationFetchRequest(message) ==
  [url |-> stripFragment(message.url), cache |-> "reload", credentials |-> "include"]

\* the fetch of handleDigestGeneration with the cache mode of a page load
GenerationFetchRequest_DefaultCache(message) ==
  [url |-> stripFragment(message.url), cache |-> "default", credentials |-> "include"]

\* fetch(targetUrl, {cache, credentials}) of handleDigestGeneration
GenerationFetchRequest(message) ==
  [url |-> stripFragment(message.url), cache |-> "reload", credentials |-> "include"]

\* url: targetUrl in the result of a call that succeeded
WithTargetUrl(result, message) ==
  IF result.ok THEN result @@ [url |-> stripFragment(message.url)] ELSE result

\* String.prototype.includes for a string argument
IsSubstring(needle, s) ==
  \E i \in 0..(Len(s) - Len(needle)) : SubSeq(s, i + 1, i + Len(needle)) = needle

LOGIN == <<"/","l","o","g","i","n">>
GITHUB_LOGIN_URL == <<"https://github.com">> \o LOGIN

\* new URL(url).pathname of a github.com URL: from the first "/" to "?" or "#"
Pathname(url) ==
  LET rest == Tail(url)
      stop == IF \E i \in DOMAIN rest : rest[i] \in {"?", "#"}
              THEN (CHOOSE i \in DOMAIN rest :
                      /\ rest[i] \in {"?", "#"}
                      /\ \A j \in 1..(i - 1) : rest[j] \notin {"?", "#"}) - 1
              ELSE Len(rest)
  IN SubSeq(rest, 1, stop)

requiresGithubAuth(response) ==
  IF response.status = HTTP_UNAUTHORIZED THEN TRUE
  ELSE IF response.redirected /\ IsSubstring(LOGIN, response.url) THEN TRUE
  ELSE IF response.url # <<>> /\ StartsWith(Pathname(response.url), LOGIN) THEN TRUE
  ELSE FALSE

\* the log texts a provider may answer with: one without and one with the token
\* of the fragments of this model
LogTexts == { <<"o","k">>, <<"h","=","a","b","c","d",";">> }

\* what fetch(source.logUrl) can give
SourceFetches(source) ==
  {[kind |-> "error"]}
    \cup {[kind |-> "response", status |-> HTTP_OK, redirected |-> FALSE,
           url |-> source.logUrl, text |-> x] : x \in LogTexts}
    \cup {[kind |-> "response", status |-> st, redirected |-> FALSE,
           url |-> source.logUrl, text |-> <<>>] : st \in {HTTP_UNAUTHORIZED, HTTP_NOT_FOUND}}
    \cup {[kind |-> "response", status |-> HTTP_OK, redirected |-> TRUE,
           url |-> GITHUB_LOGIN_URL, text |-> <<"o","k">>]}

\* handleSourceVerification that looks at the status before the login wall
handleSourceVerification_StatusFirst(message, fetched) ==
  IF message.source.provider # "github"
  THEN [ok |-> FALSE, authRequired |-> FALSE, error |-> "Unsupported source provider."]
  ELSE IF fetched.kind = "error"
  THEN [ok |-> FALSE, authRequired |-> FALSE, error |-> "fetch rejected"]
  ELSE IF ~ResponseOk(fetched)
  THEN [ok |-> FALSE, authRequired |-> FALSE, error |-> "Failed to load log",
        status |-> fetched.status]
  ELSE IF requiresGithubAuth(fetched)
  THEN [ok |-> FALSE, authRequired |-> TRUE, error |-> "GitHub authentication required.",
        loginUrl |-> fetched.url]
  ELSE [ok |-> TRUE,
        found     |-> IsSubstring(message.token, fetched.text),
        provider  |-> "github",
        logUrl    |-> message.source.logUrl,
        portalUrl |-> message.source.portalUrl]

\* handleSourceVerification that looks for the token at the start of the log only
handleSourceVerification_TokenFirst(message, fetched) ==
  IF message.source.provider # "github"
  THEN [ok |-> FALSE, authRequired |-> FALSE, error |-> "Unsupported source provider."]
  ELSE IF fetched.kind = "error"
  THEN [ok |-> FALSE, authRequired |-> FALSE, error |-> "fetch rejected"]
  ELSE IF requiresGithubAuth(fetched)
  THEN [ok |-> FALSE, authRequired |-> TRUE, error |-> "GitHub authentication required.",
        loginUrl |-> fetched.url]
  ELSE IF ~ResponseOk(fetched)
  THEN [ok |-> FALSE, authRequired |-> FALSE, error |-> "Failed to load log",
        status |-> fetched.status]
  ELSE [ok |-> TRUE,
        found     |-> StartsWith(fetched.text, message.token),
        provider  |-> "github",
        logUrl    |-> message.source.logUrl,
        portalUrl |-> message.source.portalUrl]

handleSourceVerification(message, fetched) ==
  IF message.source.provider # "github"
  THEN [ok |-> FALSE, authRequired |-> FALSE, error |-> "Unsupported source provider."]
  ELSE IF fetched.kind = "error"
  THEN [ok |-> FALSE, authRequired |-> FALSE, error |-> "fetch rejected"]
  ELSE IF requiresGithubAuth(fetched)
  THEN [ok |-> FALSE, authRequired |-> TRUE, error |-> "GitHub authentication required.",
        loginUrl |-> fetched.url]
  ELSE IF ~ResponseOk(fetched)
  THEN [ok |-> FALSE, authRequired |-> FALSE, error |-> "Failed to load log",
        status |-> fetched.status]
  ELSE [ok |-> TRUE,
        found     |-> IsSubstring(message.token, fetched.text),
        provider  |-> "github",
        logUrl    |-> message.source.logUrl,
        portalUrl |-> message.source.portalUrl]

(***************************************************************************)
(* Sessions: one content script per tab, one background service worker     *)
(***************************************************************************)
NumTabs == 2
MaxChains == 2

Tabs == 1..NumTabs

\* the async call chains (bootstrap or token generation) of one content script
Threads == 1..MaxChains

\* the fragments a page is opened with or navigated to
F_EMPTY == <<>>
F_NOKEY == <<"#","x","=","1">>
F_PLAIN == <<"#">> \o K_integrity \o <<"=">> \o SHA256 \o <<"-","a","b","c","d">>
F_BAD   == <<"#">> \o K_integrity \o <<"=">> \o SHA256 \o <<"-","a","*">>
F_SRC   == F_PLAIN \o <<"&">> \o K_integrity_src
             \o <<"=","g","h",":","o","/","r",":","4",":","7">>

Fragments == {F_EMPTY, F_NOKEY, F_PLAIN, F_BAD, F_SRC}

TabVisualStates == {"absent", "loading", "verified", "rejected"}

VARIABLES
  hash,               \* window.location.hash of the tab's page
  currentDescriptor,  \* content script: let currentDescriptor
  currentSource,      \* content script: let currentSource
  alive,              \* the tab is open and its content script runs
  thr,                \* content script: the position of each async call chain
  toBg,               \* chrome.runtime.sendMessage requests not yet handled
  toCs,               \* responses (and prompts) not yet delivered to the tab
  fetches,            \* background: requests whose fetch has not settled
  tabStates,          \* background: const tabStates (a Map)
  tabSourceLinks,     \* background: const tabSourceLinks (a Map)
  notifications,      \* showDangerNotification calls, by sending tab
  rejections,         \* entries of a tab's state into rejected from another state
  results,            \* what the engines returned for each call chain's requests
  chainsLeft,         \* the call chains the tab may still start
  call                \* a function called on its own: its arguments and result

vars == <<hash, currentDescriptor, currentSource, alive, thr, toBg, toCs, fetches,
          tabStates, tabSourceLinks, notifications, rejections, results, chainsLeft,
          call>>

csVars == <<hash, currentDescriptor, currentSource>>
frame == <<alive, chainsLeft>>

IdleThread == [pc |-> "idle", descriptor |-> NULL]
\* no function is called on its own
NoCall == [function |-> "none"]

NoResult == [descriptor |-> NULL, verify |-> "none", source |-> "none",
             generate |-> "none", generated |-> NULL]

\* Map.prototype.set / delete / get on a map kept as a function
MapSet(map, key, value) ==
  [x \in DOMAIN map \cup {key} |-> IF x = key THEN value ELSE map[x]]

MapDelete(map, key) == [x \in DOMAIN map \ {key} |-> map[x]]

MapHas(map, key) == key \in DOMAIN map

\* setTabVisualState with one state kept for every tab
setTabVisualState_Shared(states, tabId, state) ==
  [x \in DOMAIN states \cup {tabId} |-> state]

\* setTabVisualState that drops the entry of a tab which has the state already
setTabVisualState_Toggle(states, tabId, state) ==
  IF MapHas(states, tabId) /\ states[tabId] = state
  THEN MapDelete(states, tabId)
  ELSE MapSet(states, tabId, state)

\* the synchronous part of setTabVisualState: tabStates.set(tabId, state)
setTabVisualState(states, tabId, state) == MapSet(states, tabId, state)

EntersRejected(states, tabId, state) ==
  state = "rejected" /\ (~MapHas(states, tabId) \/ states[tabId] # "rejected")

\* the content script of a tab opened with fragment f, after its first synchronous
\* run: currentDescriptor is parsed and bootstrap() has sent its source summary
SummaryMessage(k, source) ==
  [k |-> k, type |-> "REPORT_SOURCE_SUMMARY", hasSource |-> source # NULL,
   portalUrl |-> IF source = NULL THEN NoString ELSE source.portalUrl]

ReportMessage(k, state) == [k |-> k, type |-> "REPORT_TAB_STATE", state |-> state]

\* the tabs of `open` have just loaded a page whose fragment is one of
\* choices[t]: each content script has parsed it and bootstrap() has sent its source
\* summary; the background has heard of no tab yet
Start(open, choices, left) ==
  /\ hash \in {h \in [Tabs -> Fragments \cup {F_EMPTY}] :
                 \A t \in Tabs : h[t] \in (IF t \in open THEN choices[t] ELSE {F_EMPTY})}
  /\ currentDescriptor = [t \in Tabs |-> parseIntegrityDescriptor(hash[t])]
  /\ currentSource = [t \in Tabs |-> SourceOf(currentDescriptor[t])]
  /\ alive = [t \in Tabs |-> t \in open]
  /\ thr = [t \in Tabs |-> [k \in Threads |->
               IF t \in open /\ k = 1
               THEN [pc |-> "summary", descriptor |-> NULL]
               ELSE IdleThread]]
  /\ toBg = [t \in Tabs |->
               IF t \in open THEN <<SummaryMessage(1, currentSource[t])>> ELSE <<>>]
  /\ toCs = [t \in Tabs |-> <<>>]
  /\ fetches = [t \in Tabs |-> [k \in Threads |-> NULL]]
  /\ tabStates = << >>
  /\ tabSourceLinks = << >>
  /\ notifications = [t \in Tabs |-> 0]
  /\ rejections = [t \in Tabs |-> 0]
  /\ results = [t \in Tabs |-> [k \in Threads |-> NoResult]]
  /\ chainsLeft = [t \in Tabs |-> IF t \in open THEN left[t] ELSE 0]

\* one tab is open, on any of the fragments
Init ==
  /\ Start({1}, [t \in Tabs |-> Fragments], [t \in Tabs |-> MaxChains - 1])
  /\ call = NoCall

\* two tabs are open: the first without fragment and free to change it or to
\* generate a token, the second on a fragment that it keeps
InitTwoTabs ==
  /\ Start({1, 2}, [t \in Tabs |-> IF t = 1 THEN {F_EMPTY} ELSE {F_PLAIN}],
           [t \in Tabs |-> IF t = 1 THEN MaxChains - 1 ELSE 0])
  /\ call = NoCall

(***************************************************************************)
(* Content script                                                          *)
(***************************************************************************)
\* a response is delivered to the call chain that awaits it: the head of toCs
HasResponse(t) == alive[t] /\ toCs[t] # <<>> /\ Head(toCs[t]).k # 0

Awaiting(t, pcs) == HasResponse(t) /\ thr[t][Head(toCs[t]).k].pc \in pcs

\* the call chain k of tab t moves on and sends its next request
Continue(t, k, pc, descriptor, message) ==
  /\ thr' = [thr EXCEPT ![t][k] = [pc |-> pc, descriptor |-> descriptor]]
  /\ toBg' = [toBg EXCEPT ![t] = Append(@, message)]

\* escalateDanger without its report of rejected: the alert only
escalateDanger_AlertOnly(t, k) ==
  Continue(t, k, "escAlert", NULL, [k |-> k, type |-> "SHOW_DANGER_ALERT"])

\* escalateDanger up to its first await: reportTabState("rejected")
escalateDanger(t, k) == Continue(t, k, "escReport", NULL, ReportMessage(k, "rejected"))

\* a slot for a new call chain; prompts under way keep one each
IdleThreads(t) == {k \in Threads : thr[t][k].pc = "idle"}
PromptsPending(t) == Cardinality({i \in DOMAIN toCs[t] : toCs[t][i].k = 0})
CanSpawn(t) == chainsLeft[t] > PromptsPending(t)
NextThread(t) == CHOOSE k \in IdleThreads(t) : \A j \in IdleThreads(t) : k <= j

\* window "hashchange": the fragment becomes f; the listener parses it and calls
\* bootstrap(), which runs up to its first await (reportSourceSummary)
HashChange(t, f) ==
  /\ alive[t]
  /\ f # hash[t]
  /\ CanSpawn(t)
  /\ hash' = [hash EXCEPT ![t] = f]
  /\ currentDescriptor' = [currentDescriptor EXCEPT ![t] = parseIntegrityDescriptor(f)]
  /\ currentSource' = [currentSource EXCEPT ![t] = SourceOf(parseIntegrityDescriptor(f))]
  /\ Continue(t, NextThread(t), "summary", NULL,
              SummaryMessage(NextThread(t), SourceOf(parseIntegrityDescriptor(f))))
  /\ results' = [results EXCEPT ![t][NextThread(t)] = NoResult]
  /\ chainsLeft' = [chainsLeft EXCEPT ![t] = @ - 1]
  /\ UNCHANGED <<alive, toCs, fetches, tabStates, tabSourceLinks, notifications,
                 rejections>>
  /\ UNCHANGED call

\* bootstrap after `await reportSourceSummary`: report absent, or verifyDescriptor
\* up to its first await (VERIFY_PAGE_DIGEST)
BootstrapAfterSummary(t) ==
  /\ Awaiting(t, {"summary"})
  /\ LET k == Head(toCs[t]).k
         d == currentDescriptor[t]
     IN /\ IF d = NULL
           THEN Continue(t, k, "absent", NULL, ReportMessage(k, "absent"))
           ELSE Continue(t, k, "verify", d,
                         [k |-> k, type |-> "VERIFY_PAGE_DIGEST",
                          expectedDigest |-> d.digest, algorithm |-> d.algorithm,
                          encoding |-> d.encoding])
        /\ results' = [results EXCEPT ![t][k].descriptor = d]
  /\ toCs' = [toCs EXCEPT ![t] = Tail(@)]
  /\ UNCHANGED <<csVars, frame, fetches, tabStates, tabSourceLinks, notifications,
                 rejections>>
  /\ UNCHANGED call

\* verifyDescriptor that looks up the provenance of a digest that did not match
VerifyDescriptorAfterResponse_AnyDigest(t) ==
  /\ Awaiting(t, {"verify"})
  /\ LET k == Head(toCs[t]).k
         response == Head(toCs[t]).response
         descriptor == thr[t][k].descriptor
     IN IF ~response.ok THEN escalateDanger(t, k)
        ELSE IF descriptor.source # NULL
        THEN Continue(t, k, "source", descriptor,
                      [k |-> k, type |-> "VERIFY_SOURCE_REFERENCE",
                       token |-> descriptor.digest, source |-> descriptor.source])
        ELSE IF ~response.matches THEN escalateDanger(t, k)
        ELSE Continue(t, k, "final", NULL, ReportMessage(k, "verified"))
  /\ toCs' = [toCs EXCEPT ![t] = Tail(@)]
  /\ UNCHANGED <<csVars, frame, fetches, tabStates, tabSourceLinks, notifications,
                 rejections, results>>
  /\ UNCHANGED call

\* verifyDescriptor after the VERIFY_PAGE_DIGEST response
VerifyDescriptorAfterResponse(t) ==
  /\ Awaiting(t, {"verify"})
  /\ LET k == Head(toCs[t]).k
         response == Head(toCs[t]).response
         descriptor == thr[t][k].descriptor
     IN IF ~response.ok THEN escalateDanger(t, k)
        ELSE IF ~response.matches THEN escalateDanger(t, k)
        ELSE IF descriptor.source # NULL
        THEN Continue(t, k, "source", descriptor,
                      [k |-> k, type |-> "VERIFY_SOURCE_REFERENCE",
                       token |-> descriptor.digest, source |-> descriptor.source])
        ELSE Continue(t, k, "final", NULL, ReportMessage(k, "verified"))
  /\ toCs' = [toCs EXCEPT ![t] = Tail(@)]
  /\ UNCHANGED <<csVars, frame, fetches, tabStates, tabSourceLinks, notifications,
                 rejections, results>>
  /\ UNCHANGED call

\* verifySourceReference after the VERIFY_SOURCE_REFERENCE response, and the
\* branch of verifyDescriptor its status selects
VerifySourceAfterResponse(t) ==
  /\ Awaiting(t, {"source"})
  /\ LET k == Head(toCs[t]).k
         response == Head(toCs[t]).response
     IN IF ~response.ok
        THEN (IF response.authRequired
              THEN Continue(t, k, "authLoading", NULL, ReportMessage(k, "loading"))
              ELSE escalateDanger(t, k))
        ELSE IF response.found
        THEN Continue(t, k, "final", NULL, ReportMessage(k, "verified"))
        ELSE escalateDanger(t, k)
  /\ toCs' = [toCs EXCEPT ![t] = Tail(@)]
  /\ UNCHANGED <<csVars, frame, fetches, tabStates, tabSourceLinks, notifications,
                 rejections, results>>
  /\ UNCHANGED call

\* status "auth": verifySourceReference has reported loading, verifyDescriptor
\* reports loading again
VerifyDescriptorAfterAuth(t) ==
  /\ Awaiting(t, {"authLoading"})
  /\ Continue(t, Head(toCs[t]).k, "final", NULL,
              ReportMessage(Head(toCs[t]).k, "loading"))
  /\ toCs' = [toCs EXCEPT ![t] = Tail(@)]
  /\ UNCHANGED <<csVars, frame, fetches, tabStates, tabSourceLinks, notifications,
                 rejections, results>>
  /\ UNCHANGED call

\* escalateDanger after `await reportTabState("rejected")`: SHOW_DANGER_ALERT
EscalateDangerAfterReport(t) ==
  /\ Awaiting(t, {"escReport"})
  /\ Continue(t, Head(toCs[t]).k, "escAlert", NULL,
              [k |-> Head(toCs[t]).k, type |-> "SHOW_DANGER_ALERT"])
  /\ toCs' = [toCs EXCEPT ![t] = Tail(@)]
  /\ UNCHANGED <<csVars, frame, fetches, tabStates, tabSourceLinks, notifications,
                 rejections, results>>
  /\ UNCHANGED call

\* the last await of a call chain returns: nothing follows it
ChainEnds(t) ==
  /\ Awaiting(t, {"absent", "final", "escAlert"})
  /\ thr' = [thr EXCEPT ![t][Head(toCs[t]).k] = [pc |-> "done", descriptor |-> NULL]]
  /\ toCs' = [toCs EXCEPT ![t] = Tail(@)]
  /\ UNCHANGED <<csVars, frame, toBg, fetches, tabStates, tabSourceLinks,
                 notifications, rejections, results>>
  /\ UNCHANGED call

\* the content script's onMessage listener: PROMPT_TOKEN_GENERATION; it starts
\* handleTokenGenerationRequest, which runs up to `await reportTabState("loading")`
PromptTokenGeneration(t) ==
  /\ alive[t] /\ toCs[t] # <<>> /\ Head(toCs[t]).k = 0
  /\ toCs' = [toCs EXCEPT ![t] = Tail(@)]
  /\ IF currentDescriptor[t] # NULL
     THEN UNCHANGED <<thr, toBg, results, chainsLeft>>
     ELSE /\ Continue(t, NextThread(t), "genLoading", NULL,
                      ReportMessage(NextThread(t), "loading"))
          /\ results' = [results EXCEPT ![t][NextThread(t)] = NoResult]
          /\ chainsLeft' = [chainsLeft EXCEPT ![t] = @ - 1]
  /\ UNCHANGED <<csVars, alive, fetches, tabStates, tabSourceLinks, notifications,
                 rejections>>
  /\ UNCHANGED call

\* handleTokenGenerationRequest after `await reportTabState("loading")`
GenerationAfterLoading(t) ==
  /\ Awaiting(t, {"genLoading"})
  /\ Continue(t, Head(toCs[t]).k, "generate", NULL,
              [k |-> Head(toCs[t]).k, type |-> "GENERATE_PAGE_DIGEST",
               algorithm |-> DEFAULT_ALGORITHM, encoding |-> DEFAULT_ENCODING])
  /\ toCs' = [toCs EXCEPT ![t] = Tail(@)]
  /\ UNCHANGED <<csVars, frame, fetches, tabStates, tabSourceLinks, notifications,
                 rejections, results>>
  /\ UNCHANGED call

\* handleTokenGenerationRequest after the GENERATE_PAGE_DIGEST response: the digest
\* goes into the fragment (history.replaceState fires no hashchange), the fragment
\* is parsed and bootstrap() runs up to its first await
GenerationAfterResponse(t) ==
  /\ Awaiting(t, {"generate"})
  /\ LET k == Head(toCs[t]).k
         response == Head(toCs[t]).response
         nextHash == applyIntegrityFragment(hash[t], response.algorithm, response.digest)
     IN IF ~response.ok
        THEN escalateDanger(t, k) /\ UNCHANGED csVars
        ELSE /\ hash' = [hash EXCEPT ![t] = nextHash]
             /\ currentDescriptor' =
                  [currentDescriptor EXCEPT ![t] = parseIntegrityDescriptor(nextHash)]
             /\ currentSource' =
                  [currentSource EXCEPT ![t] = SourceOf(parseIntegrityDescriptor(nextHash))]
             /\ Continue(t, k, "summary", NULL,
                         SummaryMessage(k, SourceOf(parseIntegrityDescriptor(nextHash))))
  /\ toCs' = [toCs EXCEPT ![t] = Tail(@)]
  /\ UNCHANGED <<frame, fetches, tabStates, tabSourceLinks, notifications,
                 rejections, results>>
  /\ UNCHANGED call

(***************************************************************************)
(* Background service worker                                               *)
(***************************************************************************)
isVerifyMessage(message) ==
  /\ message.type = "VERIFY_PAGE_DIGEST"
  /\ message.encoding \in {"base64", "base64url"}

isGenerateMessage(message) ==
  /\ message.type = "GENERATE_PAGE_DIGEST"
  /\ message.encoding \in {"base64", "base64url"}

\* isReportStateMessage without the check of the state
isReportStateMessage_AnyState(message) == message.type = "REPORT_TAB_STATE"

isReportStateMessage(message) ==
  /\ message.type = "REPORT_TAB_STATE"
  /\ message.state \in {"absent", "loading", "verified", "rejected"}

isDangerAlertMessage(message) == message.type = "SHOW_DANGER_ALERT"

isSourceSummaryMessage(message) == message.type = "REPORT_SOURCE_SUMMARY"

isVerifySourceReferenceMessage(message) ==
  /\ message.type = "VERIFY_SOURCE_REFERENCE"
  /\ message.source.provider = "github"

\* the request the listener handles next, and the tab that sent it
HasRequest(t) == toBg[t] # <<>>

\* sendResponse: the response travels to the tab unless the tab is gone
\* sendResponse that is reached with a success only: a failure leaves the
\* listener as an exception
Respond_SuccessOnly(t, k, response) ==
  toCs' = [toCs EXCEPT ![t] = IF alive[t] /\ response.ok
                               THEN Append(@, [k |-> k, response |-> response])
                               ELSE @]

Respond(t, k, response) ==
  toCs' = [toCs EXCEPT ![t] = IF alive[t]
                               THEN Append(@, [k |-> k, response |-> response])
                               ELSE @]

\* the tab's state is set to each of `states` in turn
RECURSIVE SetStates(_, _, _)
SetStates(map, t, states) ==
  IF states = <<>> THEN map
  ELSE SetStates(setTabVisualState(map, t, Head(states)), t, Tail(states))

RECURSIVE CountRejections(_, _, _)
CountRejections(map, t, states) ==
  IF states = <<>> THEN 0
  ELSE (IF EntersRejected(map, t, Head(states)) THEN 1 ELSE 0)
         + CountRejections(setTabVisualState(map, t, Head(states)), t, Tail(states))

Track(t, states) ==
  /\ tabStates' = SetStates(tabStates, t, states)
  /\ rejections' = [rejections EXCEPT ![t] = @ + CountRejections(tabStates, t, states)]

\* the state the listener sets when handleVerification has settled
StateAfterVerification(result) ==
  IF result.ok /\ result.matches THEN "verified" ELSE "rejected"

VerifyOutcome(result) ==
  IF ~result.ok THEN "failure" ELSE IF result.matches THEN "match" ELSE "mismatch"

\* onMessage, VERIFY_PAGE_DIGEST: loading, then handleVerification; an invalid
\* request is answered in the same turn, a valid one leaves its fetch under way
VerifyPageDigest(t) ==
  /\ HasRequest(t) /\ isVerifyMessage(Head(toBg[t]))
  /\ LET message == Head(toBg[t])
         result == handleVerification(message, [kind |-> "error"])
     IN IF VerificationFetches(message)
        THEN /\ Track(t, <<"loading">>)
             /\ fetches' = [fetches EXCEPT ![t][message.k] = message]
             /\ UNCHANGED <<toCs, results>>
        ELSE /\ Track(t, <<"loading", StateAfterVerification(result)>>)
             /\ Respond(t, message.k, result)
             /\ results' = [results EXCEPT ![t][message.k].verify = VerifyOutcome(result)]
             /\ UNCHANGED fetches
  /\ toBg' = [toBg EXCEPT ![t] = Tail(@)]
  /\ UNCHANGED <<csVars, frame, thr, tabSourceLinks, notifications>>
  /\ UNCHANGED call

\* handleVerification(...).then: the fetch has settled with `fetched`
VerificationSettles(t, k, fetched) ==
  /\ fetches[t][k] # NULL /\ fetches[t][k].type = "VERIFY_PAGE_DIGEST"
  /\ LET result == handleVerification(fetches[t][k], fetched)
     IN /\ Track(t, <<StateAfterVerification(result)>>)
        /\ Respond(t, k, result)
        /\ results' = [results EXCEPT ![t][k].verify = VerifyOutcome(result)]
  /\ fetches' = [fetches EXCEPT ![t][k] = NULL]
  /\ UNCHANGED <<csVars, frame, thr, toBg, tabSourceLinks, notifications>>
  /\ UNCHANGED call

\* onMessage, GENERATE_PAGE_DIGEST
GeneratePageDigest(t) ==
  /\ HasRequest(t) /\ isGenerateMessage(Head(toBg[t]))
  /\ LET message == Head(toBg[t])
         result == handleDigestGeneration(message, [kind |-> "error"])
     IN IF GenerationFetches(message)
        THEN /\ Track(t, <<"loading">>)
             /\ fetches' = [fetches EXCEPT ![t][message.k] = message]
             /\ UNCHANGED <<toCs, results>>
        ELSE /\ Track(t, <<"loading", "rejected">>)
             /\ Respond(t, message.k, result)
             /\ results' = [results EXCEPT ![t][message.k].generate = "failure"]
             /\ UNCHANGED fetches
  /\ toBg' = [toBg EXCEPT ![t] = Tail(@)]
  /\ UNCHANGED <<csVars, frame, thr, tabSourceLinks, notifications>>
  /\ UNCHANGED call

\* handleDigestGeneration(...).then
GenerationSettles(t, k, fetched) ==
  /\ fetches[t][k] # NULL /\ fetches[t][k].type = "GENERATE_PAGE_DIGEST"
  /\ LET result == handleDigestGeneration(fetches[t][k], fetched)
     IN /\ IF ~result.ok THEN Track(t, <<"rejected">>) ELSE Track(t, <<>>)
        /\ Respond(t, k, result)
        /\ results' = [results EXCEPT ![t][k].generate =
                                         IF result.ok THEN "generated" ELSE "failure",
                                       ![t][k].generated =
                                         IF result.ok THEN result.digest ELSE NULL]
  /\ fetches' = [fetches EXCEPT ![t][k] = NULL]
  /\ UNCHANGED <<csVars, frame, thr, toBg, tabSourceLinks, notifications>>
  /\ UNCHANGED call

\* onMessage, REPORT_TAB_STATE
ReportTabState(t) ==
  /\ HasRequest(t) /\ isReportStateMessage(Head(toBg[t]))
  /\ Track(t, <<Head(toBg[t]).state>>)
  /\ Respond(t, Head(toBg[t]).k, [ok |-> TRUE])
  /\ toBg' = [toBg EXCEPT ![t] = Tail(@)]
  /\ UNCHANGED <<csVars, frame, thr, fetches, tabSourceLinks, notifications, results>>
  /\ UNCHANGED call

\* onMessage, SHOW_DANGER_ALERT: showDangerNotification
ShowDangerAlert(t) ==
  /\ HasRequest(t) /\ isDangerAlertMessage(Head(toBg[t]))
  /\ notifications' = [notifications EXCEPT ![t] = @ + 1]
  /\ Respond(t, Head(toBg[t]).k, [ok |-> TRUE])
  /\ toBg' = [toBg EXCEPT ![t] = Tail(@)]
  /\ UNCHANGED <<csVars, frame, thr, fetches, tabStates, tabSourceLinks, rejections,
                 results>>
  /\ UNCHANGED call

\* the REPORT_SOURCE_SUMMARY branch without its delete
SourceLinksAfterSummary_NeverCleared(links, tabId, message) ==
  IF message.hasSource /\ message.portalUrl \notin {NoString, <<>>}
  THEN MapSet(links, tabId, message.portalUrl)
  ELSE links

\* the links after the REPORT_SOURCE_SUMMARY branch: set with a source, else deleted
SourceLinksAfterSummary(links, tabId, message) ==
  IF message.hasSource /\ message.portalUrl \notin {NoString, <<>>}
  THEN MapSet(links, tabId, message.portalUrl)
  ELSE MapDelete(links, tabId)

\* onMessage, REPORT_SOURCE_SUMMARY
ReportSourceSummary(t) ==
  /\ HasRequest(t) /\ isSourceSummaryMessage(Head(toBg[t]))
  /\ tabSourceLinks' = SourceLinksAfterSummary(tabSourceLinks, t, Head(toBg[t]))
  /\ Respond(t, Head(toBg[t]).k, [ok |-> TRUE])
  /\ toBg' = [toBg EXCEPT ![t] = Tail(@)]
  /\ UNCHANGED <<csVars, frame, thr, fetches, tabStates, notifications, rejections,
                 results>>
  /\ UNCHANGED call

\* onMessage, VERIFY_SOURCE_REFERENCE: loading, then the log fetch is under way
VerifySourceReference(t) ==
  /\ HasRequest(t) /\ isVerifySourceReferenceMessage(Head(toBg[t]))
  /\ Track(t, <<"loading">>)
  /\ fetches' = [fetches EXCEPT ![t][Head(toBg[t]).k] = Head(toBg[t])]
  /\ toBg' = [toBg EXCEPT ![t] = Tail(@)]
  /\ UNCHANGED <<csVars, frame, thr, toCs, tabSourceLinks, notifications, results>>
  /\ UNCHANGED call

SourceOutcome(result) ==
  IF result.ok THEN (IF result.found THEN "found" ELSE "notfound")
  ELSE IF result.authRequired THEN "auth" ELSE "failure"

\* the outcomes the log fetch of call chain k can have, if one is under way
PendingSourceFetches(t, k) ==
  IF fetches[t][k] # NULL /\ fetches[t][k].type = "VERIFY_SOURCE_REFERENCE"
  THEN SourceFetches(fetches[t][k].source)
  ELSE {}

\* handleSourceVerification(...).then
SourceVerificationSettles(t, k, fetched) ==
  /\ fetched \in PendingSourceFetches(t, k)
  /\ LET result == handleSourceVerification(fetches[t][k], fetched)
     IN /\ IF result.ok
           THEN Track(t, <<IF result.found THEN "verified" ELSE "rejected">>)
           ELSE Track(t, <<>>)
        /\ Respond(t, k, result)
        /\ results' = [results EXCEPT ![t][k].source = SourceOutcome(result)]
  /\ fetches' = [fetches EXCEPT ![t][k] = NULL]
  /\ UNCHANGED <<csVars, frame, thr, toBg, tabSourceLinks, notifications>>
  /\ UNCHANGED call

\* chrome.action.onClicked: open the tab's source link, or prompt the content script
\* to generate a token when the tab's state is absent or unset
PromptMessage == [k |-> 0, type |-> "PROMPT_TOKEN_GENERATION"]

\* onClicked that prompts whatever the tab's state is
onClicked_AnyState(t) ==
  IF MapHas(tabSourceLinks, t)
  THEN [does |-> "open", url |-> tabSourceLinks[t]]
  ELSE [does |-> "prompt"]

\* what the onClicked listener does for the tab: chrome.tabs.create with the
\* tab's link, nothing, or chrome.tabs.sendMessage with the prompt
onClicked(t) ==
  IF MapHas(tabSourceLinks, t)
  THEN [does |-> "open", url |-> tabSourceLinks[t]]
  ELSE IF MapHas(tabStates, t) /\ tabStates[t] # "absent"
  THEN [does |-> "nothing"]
  ELSE [does |-> "prompt"]

ActionClicked(t) ==
  /\ alive[t]
  /\ IF onClicked(t).does = "prompt"
     THEN /\ CanSpawn(t)
          /\ toCs' = [toCs EXCEPT ![t] = Append(@, PromptMessage)]
     ELSE UNCHANGED toCs
  /\ UNCHANGED <<csVars, frame, thr, toBg, fetches, tabStates, tabSourceLinks,
                 notifications, rejections, results>>
  /\ UNCHANGED call

\* chrome.tabs.onRemoved; the tab's page and content script are gone with it, the
\* fetches the background started for it are not
TabRemoved(t) ==
  /\ alive[t]
  /\ alive' = [alive EXCEPT ![t] = FALSE]
  /\ tabStates' = MapDelete(tabStates, t)
  /\ tabSourceLinks' = MapDelete(tabSourceLinks, t)
  /\ hash' = [hash EXCEPT ![t] = F_EMPTY]
  /\ currentDescriptor' = [currentDescriptor EXCEPT ![t] = NULL]
  /\ currentSource' = [currentSource EXCEPT ![t] = NULL]
  /\ thr' = [thr EXCEPT ![t] = [k \in Threads |-> IdleThread]]
  /\ toBg' = [toBg EXCEPT ![t] = <<>>]
  /\ toCs' = [toCs EXCEPT ![t] = <<>>]
  /\ chainsLeft' = [chainsLeft EXCEPT ![t] = 0]
  /\ UNCHANGED <<fetches, notifications, rejections, results>>
  /\ UNCHANGED call

\* messages of a tab that no branch of the content script sends: a state report
\* with a state of the indicator instead of a tab state, and an unknown type
StrayMessages == { [type |-> "REPORT_TAB_STATE", state |-> "pending"],
                   [type |-> "PING"] }

\* onMessage for such a message: the only type guard that knows its type is tried
StrayMessage(t, message) ==
  /\ alive[t]
  /\ IF isReportStateMessage(message)
     THEN Track(t, <<message.state>>)
     ELSE UNCHANGED <<tabStates, rejections>>
  /\ UNCHANGED <<csVars, frame, thr, toBg, toCs, fetches, tabSourceLinks,
                 notifications, results>>
  /\ UNCHANGED call

Next ==
  \E t \in Tabs :
    \/ \E f \in Fragments : HashChange(t, f)
    \/ BootstrapAfterSummary(t)
    \/ VerifyDescriptorAfterResponse(t)
    \/ VerifySourceAfterResponse(t)
    \/ VerifyDescriptorAfterAuth(t)
    \/ EscalateDangerAfterReport(t)
    \/ ChainEnds(t)
    \/ PromptTokenGeneration(t)
    \/ GenerationAfterLoading(t)
    \/ GenerationAfterResponse(t)
    \/ VerifyPageDigest(t)
    \/ \E k \in Threads : \E fetched \in ResourceFetches : VerificationSettles(t, k, fetched)
    \/ GeneratePageDigest(t)
    \/ \E k \in Threads : \E fetched \in ResourceFetches : GenerationSettles(t, k, fetched)
    \/ ReportTabState(t)
    \/ ShowDangerAlert(t)
    \/ ReportSourceSummary(t)
    \/ VerifySourceReference(t)
    \/ \E k \in Threads :
         \E fetched \in PendingSourceFetches(t, k) :
           SourceVerificationSettles(t, k, fetched)
    \/ ActionClicked(t)
    \/ TabRemoved(t)
    \/ \E message \in StrayMessages : StrayMessage(t, message)

Spec == Init /\ [][Next]_vars

\* two tabs
SpecTwoTabs == InitTwoTabs /\ [][Next]_vars

\* one tab is open on a page without token whose bootstrap() has run to its end:
\* the background has cleared the tab's link and tracked the state absent, no call
\* chain is under way
InitAbsent ==
  /\ hash \in [Tabs -> {F_EMPTY, F_NOKEY}] /\ hash[2] = F_EMPTY
  /\ currentDescriptor = [t \in Tabs |-> parseIntegrityDescriptor(hash[t])]
  /\ currentSource = [t \in Tabs |-> SourceOf(currentDescriptor[t])]
  /\ alive = [t \in Tabs |-> t = 1]
  /\ thr = [t \in Tabs |-> [k \in Threads |-> IdleThread]]
  /\ toBg = [t \in Tabs |-> <<>>]
  /\ toCs = [t \in Tabs |-> <<>>]
  /\ fetches = [t \in Tabs |-> [k \in Threads |-> NULL]]
  /\ tabStates = setTabVisualState(<< >>, 1, "absent")
  /\ tabSourceLinks = << >>
  /\ notifications = [t \in Tabs |-> 0]
  /\ rejections = [t \in Tabs |-> 0]
  /\ results = [t \in Tabs |-> [k \in Threads |-> NoResult]]
  /\ chainsLeft = [t \in Tabs |-> IF t = 1 THEN MaxChains ELSE 0]
  /\ call = NoCall

\* a page without token, with room for a generation and a change of the fragment
SpecAbsent == InitAbsent /\ [][Next]_vars

\* The event loops of the page and of the service worker run every queued task: the
\* response or prompt at the head of a tab's queue is taken by the content script,
\* the request at the head is taken by the background listener.  Nothing makes a
\* fetch settle or a user act.
ResponseTaken(t) == alive[t] /\ toCs[t] # <<>> /\ toCs' = [toCs EXCEPT ![t] = Tail(@)]
RequestTaken(t) == toBg[t] # <<>> /\ toBg' = [toBg EXCEPT ![t] = Tail(@)]

FairSpec ==
  /\ Init /\ [][Next]_vars
  /\ \A t \in Tabs : WF_toCs(ResponseTaken(t)) /\ WF_toBg(RequestTaken(t))

(***************************************************************************)
(* Properties                                                              *)
(***************************************************************************)
StateOf(t) == IF MapHas(tabStates, t) THEN tabStates[t] ELSE "unset"
LinkOf(t) == IF MapHas(tabSourceLinks, t) THEN tabSourceLinks[t] ELSE NoString

\* nothing of the tab is under way
Quiescent(t) ==
  /\ toBg[t] = <<>> /\ toCs[t] = <<>>
  /\ \A k \in Threads : fetches[t][k] = NULL /\ thr[t][k].pc \in {"idle", "done"}

\* no call chain was started after chain k
Latest(t, k) == \A j \in Threads : j > k => thr[t][j].pc = "idle"

\* C1: a tab's state is verified only if the digest verification of its descriptor
\* returned matches=true and the descriptor has no source or its provenance lookup
\* returned Found
C1_VerifiedOnlyAfterDigestAndProvenance ==
  \A t \in Tabs :
    (alive[t] /\ StateOf(t) = "verified") =>
      \E k \in Threads :
        /\ currentDescriptor[t] # NULL
        /\ results[t][k].descriptor = currentDescriptor[t]
        /\ results[t][k].verify = "match"
        /\ (currentDescriptor[t].source = NULL \/ results[t][k].source = "found")

\* the request of chain k was made for a descriptor that is no longer the tab's
Stale(t, k) ==
  IF results[t][k].generate # "none" \/ thr[t][k].pc \in {"genLoading", "generate"}
  THEN currentDescriptor[t] # NULL
  ELSE results[t][k].descriptor # currentDescriptor[t]

\* C2: the late result of an operation whose descriptor has been superseded changes
\* neither the tab's state nor starts an escalation
C2_StaleResultsDiscarded ==
  [][\A t \in Tabs : \A k \in Threads :
       /\ (alive[t] /\ fetches[t][k] # NULL /\ fetches'[t][k] = NULL /\ Stale(t, k))
            => StateOf(t)' = StateOf(t)
       /\ (alive[t] /\ alive'[t] /\ Stale(t, k)
             /\ thr[t][k].pc \in {"verify", "source", "generate"})
            => thr'[t][k].pc # "escReport"]_vars

\* C3: once nothing of a tab is under way, as many danger alerts were shown for it as
\* its state went from another state to rejected
C3_OneEscalationPerRejection ==
  \A t \in Tabs : (alive[t] /\ Quiescent(t)) => notifications[t] = rejections[t]

\* the provenance lookup of chain k is under way or has returned AuthRequired, and no
\* call chain (hence no verification) was started after it
InAuthLookup(t, k) ==
  /\ alive[t]
  /\ Latest(t, k)
  /\ \/ (fetches[t][k] # NULL /\ fetches[t][k].type = "VERIFY_SOURCE_REFERENCE")
     \/ (results[t][k].source = "auth" /\ thr[t][k].pc # "idle")

\* C4: from the start of a provenance lookup that returns AuthRequired until a new
\* verification starts, the tab's state is loading
C4_AuthRequiredHoldsLoading ==
  \A t \in Tabs : \A k \in Threads : InAuthLookup(t, k) => StateOf(t) = "loading"

\* chain k got a failure, a mismatch or NotFound
FailureOutcome(t, k) ==
  \/ results[t][k].verify \in {"failure", "mismatch"}
  \/ results[t][k].source \in {"failure", "notfound"}
  \/ results[t][k].generate = "failure"

\* chain k got such an outcome and its report of it has not reached the tracker yet
RejectionDue(t, k) ==
  /\ alive[t] /\ FailureOutcome(t, k)
  /\ \/ thr[t][k].pc \in {"verify", "source", "generate"}
     \/ /\ thr[t][k].pc = "escReport"
        /\ \E i \in DOMAIN toBg[t] : toBg[t][i] = ReportMessage(k, "rejected")

\* C5: every Failure, digest mismatch and provenance NotFound is followed by the state
\* rejected (unless the tab is closed first); AuthRequired neither changes the state
\* when it is returned nor starts an escalation
C5_FailuresLeadToRejected ==
  /\ \A t \in Tabs : \A k \in Threads :
       RejectionDue(t, k) ~> (StateOf(t) = "rejected" \/ ~alive[t])
  /\ [](\A t \in Tabs : \A k \in Threads :
          (alive[t] /\ results[t][k].source = "auth")
             => thr[t][k].pc \notin {"escReport", "escAlert"})
  /\ [][\A t \in Tabs : \A k \in Threads :
          (results[t][k].source # "auth" /\ results'[t][k].source = "auth")
             => StateOf(t)' = StateOf(t)]_vars

\* a provenance Failure (no state set by the lookup itself) has been reported as
\* rejected by the content script
C5_Witness ==
  \E t \in Tabs : \E k \in Threads :
    /\ alive[t] /\ results[t][k].source = "failure"
    /\ thr[t][k].pc = "escAlert" /\ StateOf(t) = "rejected"

\* chain k is the last one started, found no descriptor and its report of absent
\* has reached the tracker; no generation was started since
AbsentReported(t, k) ==
  /\ Latest(t, k)
  /\ thr[t][k].pc \in {"absent", "done"}
  /\ results[t][k] = NoResult
  /\ \A i \in DOMAIN toBg[t] : toBg[t][i] # ReportMessage(k, "absent")

\* C6: once the fragment without an integrity parameter has been reported, the state
\* is absent until a new descriptor appears or a generation is started
C6_AbsentUntilNewDescriptor ==
  \A t \in Tabs : \A k \in Threads :
    (alive[t] /\ currentDescriptor[t] = NULL /\ AbsentReported(t, k))
       => StateOf(t) = "absent"

\* every source summary of the tab has reached the background
SummariesHandled(t) == \A i \in DOMAIN toBg[t] : toBg[t][i].type # "REPORT_SOURCE_SUMMARY"

\* C7: when the summaries of a tab have been handled, the tab has a source link iff
\* its current descriptor has a source, and the link is that source's portal URL,
\* whatever the tab's state
C7_SourceLinkFollowsDescriptor ==
  \A t \in Tabs :
    (alive[t] /\ SummariesHandled(t)) =>
      /\ currentSource[t] = SourceOf(currentDescriptor[t])
      /\ MapHas(tabSourceLinks, t) <=> currentSource[t] # NULL
      /\ currentSource[t] # NULL => tabSourceLinks[t] = currentSource[t].portalUrl

\* the link is there while the verification of the descriptor has failed
C7_Witness ==
  \E t \in Tabs :
    /\ alive[t] /\ SummariesHandled(t) /\ currentSource[t] # NULL
    /\ LinkOf(t) = currentSource[t].portalUrl
    /\ StateOf(t) = "rejected"

\* something of tab t changes in the step
Touched(t) ==
  \/ <<hash[t], currentDescriptor[t], currentSource[t], alive[t], thr[t]>>' #
       <<hash[t], currentDescriptor[t], currentSource[t], alive[t], thr[t]>>
  \/ <<toBg[t], toCs[t], fetches[t], results[t]>>' #
       <<toBg[t], toCs[t], fetches[t], results[t]>>

\* C8: a step of one tab (a request, a settled fetch, a removal) leaves the state
\* and the source link of every other tab as they are
C8_SessionsIsolated ==
  [][\A a \in Tabs : \A b \in Tabs \ {a} :
       Touched(a) => (StateOf(b)' = StateOf(b) /\ LinkOf(b)' = LinkOf(b))]_vars

\* both tabs have verified their descriptors, with different outcomes, and only the
\* first has a source link
C8_Witness ==
  /\ alive[1] /\ alive[2]
  /\ StateOf(1) = "rejected" /\ StateOf(2) = "verified"
  /\ MapHas(tabSourceLinks, 1) /\ ~MapHas(tabSourceLinks, 2)

\* C9: every entry of tabStates is one of the four states; a REPORT_TAB_STATE with
\* another value is not applied
C9_StatesClosed ==
  \A t \in DOMAIN tabStates : tabStates[t] \in TabVisualStates

\* an open tab, whose scripts can send any message, has an entry
C9_Witness ==
  \E t \in Tabs : alive[t] /\ MapHas(tabStates, t) /\ tabStates[t] = "absent"
                  /\ toBg[t] = <<>>

\* the background handles a REPORT_TAB_STATE of tab t with the state the tab has
RepeatedReport(t) ==
  /\ alive[t] /\ alive'[t]
  /\ toBg[t] # <<>> /\ isReportStateMessage(Head(toBg[t]))
  /\ toBg'[t] = Tail(toBg[t])
  /\ StateOf(t) = Head(toBg[t]).state

\* C10: reporting the state a tab already has changes neither tabStates nor
\* tabSourceLinks, and setting a state twice is the same as setting it once
C10_TrackerIdempotent ==
  /\ [](\A t \in Tabs : \A state \in TabVisualStates :
          setTabVisualState(setTabVisualState(tabStates, t, state), t, state)
            = setTabVisualState(tabStates, t, state))
  /\ [][\A t \in Tabs :
          RepeatedReport(t) => UNCHANGED <<tabStates, tabSourceLinks>>]_vars

\* a report of rejected is waiting while the tab is rejected and has a link
C10_Witness ==
  \E t \in Tabs :
    /\ alive[t] /\ toBg[t] # <<>>
    /\ Head(toBg[t]) \in {ReportMessage(k, "rejected") : k \in Threads}
    /\ StateOf(t) = "rejected" /\ MapHas(tabSourceLinks, t)

\* C11: a removed tab has no entry in tabStates and none in tabSourceLinks, also
\* when fetches started before the removal settle after it
C11_DestroyedOnRemoval ==
  \A t \in Tabs : ~alive[t] => (~MapHas(tabStates, t) /\ ~MapHas(tabSourceLinks, t))

(***************************************************************************)
(* Functions called on their own                                           *)
(***************************************************************************)
sessionVars == <<hash, currentDescriptor, currentSource, alive, thr, toBg, toCs,
                 fetches, tabStates, tabSourceLinks, notifications, rejections,
                 results, chainsLeft>>

\* what a fragment can have before the first "-" of its integrity value
AlgorithmTexts ==
  { <<"s", "h", "a", "2", "5", "6">>, <<"S", "H", "A", "2", "5", "6">>,
    <<"S", "h", "a", "3", "8", "4">>, <<"s", "h", "a", "5", "1", "2">>,
    <<"s", "h", "a", "1">>, <<>>, <<"+", "s", "h", "a", "2", "5", "6">> }

\* ... and after it
DigestTexts ==
  { <<"a", "b", "c", "d">>, <<"a", "-", "c">>, <<"a", "_", "c">>,
    <<"a", "+", "c", "=">>, <<"a", "%", "2", "B", "c", "%", "3", "D">>,
    <<"a", "/", "c", "=">>, <<"a", "b", "=", "=">>,
    <<"%", "2", "0", "a", "b", "%", "2", "0">>, <<"a", "*">>, <<"-", "a", "b">>,
    <<"a", "b", "c", "D", "E", "F", "1", "2", "3", "_", "-">> }

\* values of integrity-src
SourceTexts ==
  { <<"g", "h", ":", "o", "c", "t", "o", "/", "r", "e", "p", "o", ":", "4", "2", ":", "7">>,
    <<"g", "i", "t", "h", "u", "b", ":", "o", "/", "r", ":", "4", ":", "7">>,
    <<"G", "H", ":", "o", "/", "r", ":", "4", ":", "7">>,
    <<"g", "l", ":", "o", "/", "r", ":", "4", ":", "7">>,
    <<"g", "h", ":", "o", "/", "r", ":", "4">>,
    <<"g", "h", ":", "o", "/", "r", ":", "4", ":", "7", ":", "9">>,
    <<"g", "h", ":", "r", "e", "p", "o", ":", "4", ":", "7">>,
    <<"g", "h", ":", "g", "i", "t", "h", "u", "b", ".", "c", "o", "m", "/", "o", "/", "r", ":", "4", ":", "7">>,
    <<"g", "h", ":", "g", "i", "t", "h", "u", "b", ".", "c", "o", "m", "/", "r", ":", "4", ":", "7">>,
    <<"g", "h", ":", "a", "/", "b", "/", "c", ":", "4", ":", "7">>,
    <<"g", "h", ":", "o", "/", ":", "4", ":", "7">>,
    <<"g", "h", ":", "+", "o", "/", "r", "+", ":", "4", ":", "7">>,
    <<"g", "h", ":", "o", "/", "r", ":", ":", "7">>,
    <<"g", "h", ":", ":", "4", ":", "7">>,
    <<"+", "g", "h", ":", "o", "/", "r", ":", "4", ":", "7">>, <<>> }

\* fragments without the parameter, with other parameters, and the README's example
OtherHashes ==
  { <<>>, <<"#">>, <<"#", "x", "=", "1">>,
    <<"#", "i", "n", "t", "e", "g", "r", "i", "t", "y">>,
    <<"#", "i", "n", "t", "e", "g", "r", "i", "t", "y", "=">>,
    <<"#", "I", "n", "t", "e", "g", "r", "i", "t", "y", "=", "s", "h", "a", "2", "5", "6", "-", "a", "b", "c", "d">>,
    <<"#", "x", "=", "1", "&", "i", "n", "t", "e", "g", "r", "i", "t", "y", "=", "s", "h", "a", "2", "5", "6", "-", "a", "b", "c", "d">>,
    <<"#", "i", "n", "t", "e", "g", "r", "i", "t", "y", "=", "s", "h", "a", "2", "5", "6", "-", "a", "b", "c", "d", "&", "i", "n", "t", "e", "g", "r", "i", "t", "y", "=", "s", "h", "a", "5", "1", "2", "-", "a", "b", "c", "d">>,
    <<"#", "&", "i", "n", "t", "e", "g", "r", "i", "t", "y", "=", "s", "h", "a", "2", "5", "6", "-", "a", "b", "c", "d">>,
    <<"#", "i", "n", "t", "e", "g", "r", "i", "t", "y", "=", "s", "h", "a", "2", "5", "6", "-", "q", "5", "C", "U", "c", "9", "r", "w", "h", "h", "H", "F", "r", "u", "f", "k", "l", "+", "l", "b", "7", "g", "T", "L", "o", "V", "Q", "y", "F", "I", "q", "c", "c", "I", "v", "e", "T", "6", "E", "r", "I", "K", "A", "=">> }

INTEGRITY_EQ == <<"#">> \o K_integrity \o <<"=">>

\* the fragments parseIntegrityDescriptor is called with
ParserHashes ==
  { INTEGRITY_EQ \o a : a \in AlgorithmTexts }
    \cup { INTEGRITY_EQ \o a \o <<"-">> : a \in AlgorithmTexts }
    \cup { INTEGRITY_EQ \o a \o <<"-">> \o d : a \in AlgorithmTexts, d \in DigestTexts }
    \cup { F_PLAIN \o <<"&">> \o K_integrity_src \o <<"=">> \o s : s \in SourceTexts }
    \cup OtherHashes

\* the digests normalizeDigest is called with
NormalizeDigestTexts ==
  { <<>>, <<" ">>, <<"a", "b", "c", "d">>, <<" ", "a", "b", "c", "d", " ">>,
    <<"a", "+", "c", "=">>, <<"a", "/", "c", "=">>, <<"a", "-", "c">>,
    <<"a", "_", "c">>, <<"a", "b", "=", "=">>, <<"a", "b", "=">>,
    <<"a", "b", "=", "=", "=">>, <<"=", "a", "b">>, <<"a", "=", "b">>, <<"a", "*">>,
    <<"a", " ", "b">>, <<"=">>, <<"a", "-", "c", "=">>, <<"a", "+", "c">> }

\* the digests inferEncoding is called with
InferEncodingTexts ==
  { <<"a", "b", "c", "d">>, <<"a", "-", "c">>, <<"a", "_", "c">>,
    <<"a", "b", "c", "D", "E", "F", "1", "2", "3", "_", "-">>, <<"a", "+", "c">>,
    <<"a", "/", "c">>, <<"a", "-", "+">>, <<>>, <<"a", "=">>, <<"-">>,
    <<"a", "-", "/">> }

\* the tokens applyIntegrityFragment is called with: a digest over the alphabet of
\* its encoding
Tokens ==
  { [algorithm |-> a, encoding |-> "base64url", digest |-> d] :
      a \in {SHA256, SHA384, SHA512},
      d \in { <<"a","b","c","d">>, <<"a","-","c">>, <<"a","_","c">> } }
    \cup
  { [algorithm |-> a, encoding |-> "base64", digest |-> d] :
      a \in {SHA256, SHA384, SHA512},
      d \in { <<"a","+","c","=">>, <<"a","/","c","=">> } }

\* the bytes of the buffers that crypto.subtle.digest returns: they give every
\* character class of btoa ("+" from 251, "/" from 255)
DigestBytes == {0, 105, 251, 255}

\* digest buffers whose lengths leave the paddings of the real ones: 32 bytes end
\* in "=", 48 in none, 64 in "=="
DigestBuffers ==
  { <<x>> : x \in DigestBytes }
    \cup { <<x, y>> : x \in DigestBytes, y \in DigestBytes }
    \cup { <<x, y, z>> : x \in DigestBytes, y \in DigestBytes, z \in DigestBytes }

\* the strings timingSafeEquals compares
ComparedTexts ==
  { <<>>, <<"a">>, <<"b">>, <<"a", "b">>, <<"a", "c">>, <<"b", "b">>,
    <<"a", "b", "c">>, <<"a", "b", "d">>, <<"x", "b", "c">>, <<"a", "-", "c">> }

\* the url of a request: window.location.href of pages with and without fragment,
\* and texts that are no URL
RequestUrls ==
  { <<"https://site.test", "/", "p">>,
    <<"https://site.test", "/", "p", "#", "i", "=", "1">>,
    <<"https://site.test", "/", "p", "?", "q", "#", "i", "=", "1", "#", "x">>,
    <<"https://site.test", "/", "#">>,
    <<"p", "a", "g", "e">>,
    <<"p", "a", "g", "e", "#", "i", "=", "1">> }

\* the requests handleVerification is called with
VerificationMessages ==
  { [type |-> "VERIFY_PAGE_DIGEST", url |-> u, algorithm |-> a, encoding |-> e,
     expectedDigest |-> d] :
      u \in {<<"https://site.test", "/", "p", "#", "i", "=", "1">>},
      a \in {SHA256, <<"S", "H", "A", "5", "1", "2">>, <<"s", "h", "a", "1">>, <<>>},
      e \in {"base64", "base64url"},
      d \in { <<"a", "b", "c", "d">>, <<"a", "-", "c">>, <<"a", "+", "c", "=">>,
              <<"a", "+", "c", "Q", "=", "=">>, <<"a", "*">>, <<"a", " ", "c", "=">>,
              <<>> } }
    \cup
  { [type |-> "VERIFY_PAGE_DIGEST", url |-> u, algorithm |-> SHA256,
     encoding |-> "base64url", expectedDigest |-> <<"a", "b", "c", "d">>] :
      u \in RequestUrls }

\* the requests handleDigestGeneration is called with
GenerationMessages ==
  { [type |-> "GENERATE_PAGE_DIGEST", url |-> u, algorithm |-> a, encoding |-> e] :
      u \in RequestUrls, a \in {SHA256, <<"s", "h", "a", "1">>},
      e \in {"base64", "base64url"} }

\* the sources handleSourceVerification is called with: gh:o/r:4:7, and a
\* repository whose owner's name starts with "login"
CalledSources ==
  { parseSourceDescriptor(<<"g", "h", ":", "o", "/", "r", ":", "4", ":", "7">>),
    parseSourceDescriptor(<<"g", "h", ":", "l", "o", "g", "i", "n", "x", "/", "r", ":",
                            "4", ":", "7">>) }

\* where a redirect of the log URL can end: the login page, with and without a
\* query, and pages of a repository
RedirectTargets ==
  { GITHUB_LOGIN_URL,
    GITHUB_LOGIN_URL \o <<"?", "r", "=", "1">>,
    <<"https://github.com", "/", "o", "/", "r", "2">>,
    <<"https://github.com", "/", "o", "/", "l", "o", "g", "i", "n">> }

\* what fetch(source.logUrl) can give, status, redirection and body combined
LogResponses(source) ==
  {[kind |-> "error"]}
    \cup {[kind |-> "response", status |-> st, redirected |-> FALSE,
           url |-> source.logUrl, text |-> x] :
             st \in {HTTP_OK, HTTP_UNAUTHORIZED, HTTP_NOT_FOUND}, x \in LogTexts}
    \cup {[kind |-> "response", status |-> st, redirected |-> TRUE,
           url |-> u, text |-> x] :
             st \in {HTTP_OK, HTTP_UNAUTHORIZED, HTTP_NOT_FOUND}, u \in RedirectTargets,
             x \in LogTexts}

\* base64url digests with the padding of their length
PaddedDigests ==
  { [digest |-> <<"a", "b", "c", "d">>, padding |-> <<>>],
    [digest |-> <<"a", "b", "c">>, padding |-> <<"=">>],
    [digest |-> <<"a", "b">>, padding |-> <<"=", "=">>],
    [digest |-> <<"a", "_", "c">>, padding |-> <<"=">>],
    [digest |-> <<"_", "Q">>, padding |-> <<"=", "=">>],
    [digest |-> <<"a", "-", "c">>, padding |-> <<"=">>] }

\* the resource of a padded digest: its SHA-256 digest is the byte 253, "_Q" in
\* base64url
PaddedResource == NumPayloads + 1

\* verifyDescriptor, lines 140-170: the request it sends for the descriptor of a
\* fragment, and what it makes of the response
verifyDescriptor(fragment, fetched) ==
  LET descriptor == parseIntegrityDescriptor(fragment)
      response   == handleVerification(
                      [type |-> "VERIFY_PAGE_DIGEST",
                       url |-> <<"https://site.test", "/", "p">> \o fragment,
                       expectedDigest |-> descriptor.digest,
                       algorithm |-> descriptor.algorithm,
                       encoding |-> descriptor.encoding], fetched)
  IN IF descriptor = NULL THEN "absent"
     ELSE IF ~response.ok THEN "error"
     ELSE IF ~response.matches THEN "mismatch"
     ELSE "match"

Call(function, args) ==
  [function |-> function, args |-> args, returned |-> FALSE, value |-> NULL]

Calls ==
  { Call("parseIntegrityDescriptor", [hash |-> h]) : h \in ParserHashes }
    \cup { Call("inferEncoding", [digest |-> d]) : d \in InferEncodingTexts }
    \cup { Call("normalizeDigest", [digest |-> d, encoding |-> e]) :
             d \in NormalizeDigestTexts, e \in {"base64", "base64url"} }
    \cup { Call("applyIntegrityFragment", [hash |-> h, token |-> token]) :
             h \in {F_EMPTY, F_NOKEY, F_PLAIN}, token \in Tokens }
    \cup { Call("encodeDigest", [buffer |-> h, encoding |-> e]) :
             h \in DigestBuffers, e \in {"base64", "base64url"} }
    \cup { Call("timingSafeEquals", [a |-> a, b |-> b]) :
             a \in ComparedTexts, b \in ComparedTexts }
    \cup { Call("handleVerification", [message |-> m]) : m \in VerificationMessages }
    \cup { Call("handleDigestGeneration", [message |-> m]) : m \in GenerationMessages }
    \cup { Call("handleSourceVerification",
                [message |-> [type |-> "VERIFY_SOURCE_REFERENCE",
                              token |-> <<"a", "b", "c", "d">>, source |-> source]]) :
             source \in CalledSources }
    \cup { Call("verifyDescriptor", [algorithm |-> a, digest |-> d.digest,
                                     padding |-> d.padding]) :
             a \in {SHA256, SHA512}, d \in PaddedDigests }

\* no tab is open; one function is about to be called
InitCalls ==
  /\ Start({}, [t \in Tabs |-> {F_EMPTY}], [t \in Tabs |-> 0])
  /\ call \in Calls

Calling(function) == call.function = function /\ ~call.returned

Returns(value) ==
  /\ call' = [call EXCEPT !.returned = TRUE, !.value = value]
  /\ UNCHANGED sessionVars

ParseIntegrityDescriptorReturns ==
  /\ Calling("parseIntegrityDescriptor")
  /\ Returns(parseIntegrityDescriptor(call.args.hash))

InferEncodingReturns ==
  /\ Calling("inferEncoding")
  /\ Returns(inferEncoding(call.args.digest))

NormalizeDigestReturns ==
  /\ Calling("normalizeDigest")
  /\ Returns(normalizeDigest(call.args.digest, call.args.encoding))

\* handleTokenGenerationRequest, lines 214-215: the token is written into the
\* fragment, and the fragment is parsed
ApplyIntegrityFragmentReturns ==
  /\ Calling("applyIntegrityFragment")
  /\ LET nextHash == applyIntegrityFragment(call.args.hash, call.args.token.algorithm,
                                            call.args.token.digest)
     IN Returns([hash |-> nextHash, descriptor |-> parseIntegrityDescriptor(nextHash)])

EncodeDigestReturns ==
  /\ Calling("encodeDigest")
  /\ Returns(encodeDigest(call.args.buffer, call.args.encoding))

\* the value of timingSafeEquals and the positions it has read on the way
TimingSafeEqualsReturns ==
  /\ Calling("timingSafeEquals")
  /\ Returns([equal     |-> timingSafeEquals(call.args.a, call.args.b),
              inspected |-> InspectedPositions(call.args.a, call.args.b)])

\* handleVerification returns: its result, the fetches it has issued and what
\* the fetch gave
HandleVerificationReturns ==
  /\ Calling("handleVerification")
  /\ LET message == call.args.message
     IN IF VerificationFetches(message)
        THEN \E fetched \in ResourceFetches :
               Returns([result   |-> WithTargetUrl(handleVerification(message, fetched),
                                                   message),
                        requests |-> <<VerificationFetchRequest(message)>>,
                        fetched  |-> fetched])
        ELSE Returns([result   |-> handleVerification(message, [kind |-> "error"]),
                      requests |-> <<>>,
                      fetched  |-> NULL])

HandleDigestGenerationReturns ==
  /\ Calling("handleDigestGeneration")
  /\ LET message == call.args.message
     IN IF GenerationFetches(message)
        THEN \E fetched \in ResourceFetches :
               Returns([result   |-> WithTargetUrl(handleDigestGeneration(message, fetched),
                                                   message),
                        requests |-> <<GenerationFetchRequest(message)>>,
                        fetched  |-> fetched])
        ELSE Returns([result   |-> handleDigestGeneration(message, [kind |-> "error"]),
                      requests |-> <<>>,
                      fetched  |-> NULL])

\* handleSourceVerification returns after its fetch of the log
HandleSourceVerificationReturns ==
  /\ Calling("handleSourceVerification")
  /\ \E fetched \in LogResponses(call.args.message.source) :
       Returns([result  |-> handleSourceVerification(call.args.message, fetched),
                fetched |-> fetched])

\* verifyDescriptor for a fragment whose digest is written with its padding and
\* for the fragment without the padding, the resource being the same
VerifyDescriptorReturns ==
  /\ Calling("verifyDescriptor")
  /\ \E fetched \in ResourceFetches
                    \cup {[kind |-> "response", status |-> HTTP_OK,
                           body |-> PaddedResource]} :
       LET plain == INTEGRITY_EQ \o call.args.algorithm \o <<"-">> \o call.args.digest
       IN Returns([padded  |-> verifyDescriptor(plain \o call.args.padding, fetched),
                   plain   |-> verifyDescriptor(plain, fetched),
                   fetched |-> fetched])

NextCalls ==
  \/ ParseIntegrityDescriptorReturns
  \/ InferEncodingReturns
  \/ NormalizeDigestReturns
  \/ ApplyIntegrityFragmentReturns
  \/ EncodeDigestReturns
  \/ TimingSafeEqualsReturns
  \/ HandleVerificationReturns
  \/ HandleDigestGenerationReturns
  \/ HandleSourceVerificationReturns
  \/ VerifyDescriptorReturns

SpecCalls == InitCalls /\ [][NextCalls]_vars

Returned(function) == call.function = function /\ call.returned

\* C12: a valid descriptor written into the fragment by applyIntegrityFragment and
\* parsed back by parseIntegrityDescriptor has the same algorithm, encoding and digest
C12_RoundTrip ==
  Returned("applyIntegrityFragment") =>
    /\ call.value.descriptor # NULL
    /\ call.value.descriptor.algorithm = call.args.token.algorithm
    /\ call.value.descriptor.encoding = call.args.token.encoding
    /\ call.value.descriptor.digest = call.args.token.digest

(***************************************************************************)
(* Token generation                                                        *)
(***************************************************************************)
\* the verification of call chain k, which generated its own token, settles with a
\* resource whose digest is the digest that the generation returned
VerifiesGeneratedToken(t, k) ==
  /\ alive[t] /\ alive'[t]
  /\ results[t][k].generate = "generated"
  /\ fetches[t][k] # NULL /\ fetches[t][k].type = "VERIFY_PAGE_DIGEST"
  /\ fetches'[t][k] = NULL
  /\ Len(toCs'[t]) = Len(toCs[t]) + 1
  /\ LET response == toCs'[t][Len(toCs'[t])].response
     IN response.ok /\ response.actualDigest = results[t][k].generated

\* C13: a token generated on demand is verified at once; when the verification
\* fetch returns the bytes that the generation hashed, the digests match and the
\* tab is verified, whatever the generated digest is
C13_GeneratedTokenVerifies ==
  [][\A t \in Tabs : \A k \in Threads :
       VerifiesGeneratedToken(t, k) =>
         (results'[t][k].verify = "match" /\ tabStates'[t] = "verified")]_vars

(***************************************************************************)
(* The parser of the fragment                                              *)
(***************************************************************************)
\* params.get("integrity") of the fragment that the parser was called with
IntegrityValue == ParamsGet(URLSearchParams(Slice(call.args.hash, 1)), K_integrity)

\* the text of the integrity value before its first "-", and the whole text after it
BeforeFirstDash == SubSeq(IntegrityValue, 1, IndexOf(IntegrityValue, "-") - 1)
AfterFirstDash == Slice(IntegrityValue, IndexOf(IntegrityValue, "-"))

\* the parser was called with a fragment whose integrity value has a "-" and a
\* supported algorithm before it
ParsedValueWithDash ==
  /\ Returned("parseIntegrityDescriptor")
  /\ Len(call.args.hash) > 1
  /\ IntegrityValue # NoString
  /\ Includes(IntegrityValue, "-")
  /\ CsNormalizeAlgorithm(BeforeFirstDash) # NoString

\* C14: parseIntegrityDescriptor splits the integrity value at its first "-" only:
\* the digest is the whole remainder, further "-" included, and with a supported
\* algorithm the result is absent iff the remainder is empty
C14_SplitAtFirstDashOnly ==
  ParsedValueWithDash =>
    /\ (call.value = NULL) <=> (AfterFirstDash = <<>>)
    /\ call.value # NULL => call.value.digest = Trim(AfterFirstDash)

\* C15: inferEncoding answers base64url iff the digest has only the characters
\* A-Z a-z 0-9 - _, has at least one "-" and has no "+"; every other digest,
\* a purely alphanumeric one included, is base64
C15_EncodingInference ==
  Returned("inferEncoding") =>
    LET digest == call.args.digest
    IN call.value =
         IF /\ digest # <<>>
            /\ \A i \in DOMAIN digest : digest[i] \in UrlSafeChars
            /\ Includes(digest, "-")
            /\ ~Includes(digest, "+")
         THEN "base64url" ELSE "base64"

\* "#integrity=sha256-", the start of the README's example
PLAIN_PREFIX == INTEGRITY_EQ \o SHA256 \o <<"-">>

\* the digest that stands literally in the fragment the parser was called with
LiteralDigest == Slice(call.args.hash, Len(PLAIN_PREFIX))

\* the parser was called with "#integrity=sha256-" and a literal standard-base64 digest
ParsedLiteralBase64 ==
  /\ Returned("parseIntegrityDescriptor")
  /\ StartsWith(call.args.hash, PLAIN_PREFIX)
  /\ base64Pattern(LiteralDigest)

\* C16: a standard-base64 digest with "+", "/" or "=" written literally in the
\* fragment is parsed unchanged, as in the README's example
\* integrity=sha256-q5CUc9rwhhHFrufkl+lb7gTLoVQyFIqccIveT6ErIKA=
C16_LiteralBase64Unchanged ==
  ParsedLiteralBase64 =>
    /\ call.value # NULL
    /\ call.value.algorithm = SHA256
    /\ call.value.digest = LiteralDigest
    /\ (\E i \in DOMAIN LiteralDigest : LiteralDigest[i] \in {"+", "/", "="})
         => call.value.encoding = "base64"

\* rawAlgorithm: the first piece of the integrity value
RawAlgorithm ==
  IF Includes(IntegrityValue, "-") THEN BeforeFirstDash ELSE IntegrityValue

SupportedNames == {SHA256, SHA384, SHA512}

\* the parser answers absent for an empty fragment, a lone "#" and a fragment
\* without a value of the integrity key
AbsentWithoutValue ==
  (Len(call.args.hash) <= 1 \/ IntegrityValue \in {NoString, <<>>}) => call.value = NULL

SourceValue == ParamsGet(URLSearchParams(Slice(call.args.hash, 1)), K_integrity_src)

\* the parser was called with "#integrity=sha256-abcd&..."
ParsedWithSource ==
  /\ Returned("parseIntegrityDescriptor")
  /\ StartsWith(call.args.hash, F_PLAIN \o <<"&">>)

GH == <<"g", "h">>
GITHUB == <<"g", "i", "t", "h", "u", "b">>

\* the repo without a leading "github.com/"
StripGithubCom(repo) ==
  IF StartsWith(repo, GITHUB_COM_SLASH) THEN Slice(repo, Len(GITHUB_COM_SLASH)) ELSE repo

\* provider:repo:runId:jobId with none of the four empty, provider gh or github
\* and a "/" in the stripped repo
WellFormedSource(tuple) ==
  /\ Len(tuple) = 4
  /\ \A i \in 1..4 : tuple[i] # <<>>
  /\ tuple[1] \in {GH, GITHUB}
  /\ Includes(StripGithubCom(tuple[2]), "/")

\* the source descriptor that the claim derives from a well-formed tuple
DerivedSource(tuple) ==
  LET portalUrl == <<"https://github.com", "/">> \o StripGithubCom(tuple[2])
                     \o <<"/actions/runs/">> \o tuple[3]
  IN [provider  |-> "github",
      repo      |-> StripGithubCom(tuple[2]),
      runId     |-> tuple[3],
      jobId     |-> tuple[4],
      portalUrl |-> portalUrl,
      logUrl    |-> portalUrl \o <<"/job/">> \o tuple[4]]

\* the pieces of the value between its colons, as written
WrittenTuple == IF SourceValue = NoString THEN <<>> ELSE Split(SourceValue, ":")

\* ... and with the white space around each piece removed
TrimmedTuple == [i \in DOMAIN WrittenTuple |-> Trim(WrittenTuple[i])]

\* C18 as stated: the integrity-src value is accepted only as provider:repo:runId:jobId
\* with provider exactly gh or github and a "/" in the repo after a leading
\* "github.com/" is stripped; the URLs are derived from the pieces; a malformed
\* value discards the source only
C18_SourceTuple_AsStated ==
  ParsedWithSource =>
    /\ call.value # NULL
    /\ call.value.source =
         IF WellFormedSource(WrittenTuple) THEN DerivedSource(WrittenTuple) ELSE NULL

\* C18: the same with the pieces of the value taken without the white space
\* around them
C18_SourceTuple ==
  ParsedWithSource =>
    /\ call.value # NULL
    /\ call.value.source =
         IF WellFormedSource(TrimmedTuple) THEN DerivedSource(TrimmedTuple) ELSE NULL

\* gh:octo/repo:42:7 was parsed to https://github.com/octo/repo/actions/runs/42/job/7
C18_Witness ==
  /\ ParsedWithSource
  /\ SourceValue = <<"g", "h", ":", "o", "c", "t", "o", "/", "r", "e", "p", "o", ":",
                     "4", "2", ":", "7">>
  /\ call.value # NULL /\ call.value.source # NULL
  /\ call.value.source.logUrl =
       <<"https://github.com", "/", "o", "c", "t", "o", "/", "r", "e", "p", "o",
         "/actions/runs/", "4", "2", "/job/", "7">>

\* C19: every source descriptor that the parser produces has a repo of the form
\* owner/name, with exactly one "/"
C19_RepoOwnerSlashName ==
  (Returned("parseIntegrityDescriptor") /\ call.value # NULL /\ call.value.source # NULL) =>
    LET pieces == Split(call.value.source.repo, "/")
    IN Len(pieces) = 2 /\ pieces[1] # <<>> /\ pieces[2] # <<>>

(***************************************************************************)
(* The digest normalisation of the background                              *)
(***************************************************************************)
\* the digest that normalizeDigest was called with, without the white space around it
TrimmedDigest == Trim(call.args.digest)

\* the "=" at the end of the trimmed digest, and the text before them
PaddingLength == TrailingEquals(TrimmedDigest)
Unpadded == SubSeq(TrimmedDigest, 1, Len(TrimmedDigest) - PaddingLength)

\* C20: normalizeDigest trims; an empty digest is absent; a base64 digest is returned
\* trimmed iff all its characters are in A-Z a-z 0-9 + / =; a base64url digest is
\* returned without its trailing "=" iff it is one or more of A-Z a-z 0-9 - _
\* followed by at most two "="; anything else is absent
C20_NormalizeDigest ==
  Returned("normalizeDigest") =>
    call.value =
      IF TrimmedDigest = <<>> THEN NoString
      ELSE IF call.args.encoding = "base64"
      THEN (IF \A i \in DOMAIN TrimmedDigest : TrimmedDigest[i] \in Base64Chars
            THEN TrimmedDigest ELSE NoString)
      ELSE (IF /\ PaddingLength <= 2
               /\ Unpadded # <<>>
               /\ \A i \in DOMAIN Unpadded : Unpadded[i] \in UrlSafeChars
            THEN Unpadded ELSE NoString)

\* normalizeDigest("ab==", "base64url") returned "ab"
C20_Witness ==
  /\ Returned("normalizeDigest")
  /\ call.args.encoding = "base64url"
  /\ call.args.digest = <<"a", "b", "=", "=">>
  /\ call.value = <<"a", "b">>

(***************************************************************************)
(* The codec of the background                                             *)
(***************************************************************************)
\* C21: the base64url text of a digest has no "+", "/" or "=", and normalizeDigest
\* returns it unchanged, never absent
C21_EncodedIsFixedPoint ==
  (Returned("encodeDigest") /\ call.args.encoding = "base64url") =>
    /\ \A i \in DOMAIN call.value : call.value[i] \notin {"+", "/", "="}
    /\ normalizeDigest(call.value, "base64url") = call.value
    /\ normalizeDigest(call.value, "base64url") # NoString

\* the digest 251, 255 ("+/8=" in base64) was encoded as "-_8"
C21_Witness ==
  /\ Returned("encodeDigest")
  /\ call.args.encoding = "base64url"
  /\ call.args.buffer = <<251, 255>>
  /\ call.value = <<"-", "_", "8">>

\* C22: timingSafeEquals answers true iff the two strings are the same, whatever
\* their lengths, and with equal lengths it reads every position before it returns
C22_TimingSafeEquals ==
  Returned("timingSafeEquals") =>
    /\ call.value.equal <=> (call.args.a = call.args.b)
    /\ Len(call.args.a) = Len(call.args.b) => call.value.inspected = Len(call.args.a)

\* "xbc" and "abc", which differ at the first position, were compared to the end
C22_Witness ==
  /\ Returned("timingSafeEquals")
  /\ call.args.a = <<"x", "b", "c">> /\ call.args.b = <<"a", "b", "c">>
  /\ ~call.value.equal
  /\ call.value.inspected = 3

(***************************************************************************)
(* The verification engine                                                 *)
(***************************************************************************)
\* the algorithm of the request is one of sha256, sha384, sha512
SupportedAlgorithm(message) == ToLowerCase(Trim(message.algorithm)) \in SupportedNames

\* the expected digest of the request, normalized
ExpectedDigest(message) == normalizeDigest(message.expectedDigest, message.encoding)

VerificationFetched ==
  /\ Returned("handleVerification")
  /\ call.value.fetched # NULL
  /\ call.value.fetched.kind = "response"

\* the digest of the body that the fetch gave, in the encoding of the request
BodyDigest ==
  encodeDigest(Digest(normalizeAlgorithm(call.args.message.algorithm),
                      call.value.fetched.body),
               call.args.message.encoding)

EngineRequests == {"VERIFY_PAGE_DIGEST", "GENERATE_PAGE_DIGEST", "VERIFY_SOURCE_REFERENCE"}

\* the responses to call chain k in a queue of the content script
ResponsesTo(queue, k) == Cardinality({i \in DOMAIN queue : queue[i].k = k})

\* ok: true, or ok: false with an error
ResultValue(response) ==
  /\ "ok" \in DOMAIN response
  /\ response.ok \in BOOLEAN
  /\ ~response.ok => "error" \in DOMAIN response

\* this step sends call chain k of tab t one response, a result value
AnswersOnce(t, k) ==
  /\ ResponsesTo(toCs'[t], k) = ResponsesTo(toCs[t], k) + 1
  /\ toCs'[t][Len(toCs'[t])].k = k
  /\ ResultValue(toCs'[t][Len(toCs'[t])].response)

\* this step sends call chain k of tab t nothing
AnswersNothing(t, k) == ResponsesTo(toCs'[t], k) = ResponsesTo(toCs[t], k)

\* this step takes an engine request of call chain k from the listener's queue
TakesEngineRequest(t, k) ==
  /\ toBg[t] # <<>>
  /\ Head(toBg[t]).type \in EngineRequests
  /\ Head(toBg[t]).k = k
  /\ toBg'[t] = Tail(toBg[t])

\* C25: every verification, generation and provenance request of an open tab gets
\* exactly one response, a result value: at once when the request is refused, else
\* when its fetch settles, be it with a response or with a rejection
C25_OneResultPerRequest ==
  [][\A t \in Tabs : \A k \in Threads :
       (alive[t] /\ alive'[t]) =>
         /\ TakesEngineRequest(t, k) =>
              /\ fetches[t][k] = NULL
              /\ \/ fetches'[t][k] # NULL /\ AnswersNothing(t, k)
                 \/ fetches'[t][k] = NULL /\ AnswersOnce(t, k)
         /\ (fetches[t][k] # NULL /\ fetches'[t][k] = NULL) => AnswersOnce(t, k)
         /\ (fetches[t][k] # NULL /\ fetches'[t][k] # NULL) =>
              /\ fetches'[t][k] = fetches[t][k]
              /\ AnswersNothing(t, k)]_vars

\* a verification whose fetch was rejected has been answered with a failure
C25_Witness ==
  \E t \in Tabs : \E k \in Threads :
    /\ alive[t]
    /\ results[t][k].verify = "failure"
    /\ \E i \in DOMAIN toCs[t] :
         /\ toCs[t][i].k = k
         /\ ~toCs[t][i].response.ok
         /\ toCs[t][i].response.error = "fetch rejected"

(***************************************************************************)
(* The fetches of the engines                                              *)
(***************************************************************************)
\* C26: every fetch that a digest verification issues uses the default mode of the
\* HTTP cache
C26_VerificationUsesCache ==
  Returned("handleVerification") =>
    \A i \in DOMAIN call.value.requests : call.value.requests[i].cache = "default"

\* the cache modes of fetch that do not answer from the HTTP cache
BypassModes == {"reload", "no-store"}

\* C27: every fetch that a digest generation issues bypasses the cache, and the
\* digest generated is the digest of the bytes that this fetch gave
C27_GenerationBypassesCache ==
  Returned("handleDigestGeneration") =>
    /\ \A i \in DOMAIN call.value.requests : call.value.requests[i].cache \in BypassModes
    /\ call.value.result.ok =>
         /\ Len(call.value.requests) = 1
         /\ call.value.fetched.kind = "response"
         /\ call.value.result.digest =
              encodeDigest(Digest(normalizeAlgorithm(call.args.message.algorithm),
                                  call.value.fetched.body),
                           call.args.message.encoding)

\* a digest was generated from the second body, fetched past the cache
C27_Witness ==
  /\ Returned("handleDigestGeneration")
  /\ call.value.result.ok
  /\ call.value.fetched.body = 2
  /\ call.value.requests[1].cache = "reload"
  /\ call.value.result.digest = <<"a", "-", "c">>

\* the text of a URL up to its first "#"
BeforeHash(url) ==
  IF Includes(url, "#") THEN SubSeq(url, 1, IndexOf(url, "#") - 1) ELSE url

\* handleVerification or handleDigestGeneration has returned
EngineFetched ==
  Returned("handleVerification") \/ Returned("handleDigestGeneration")

\* C28: the URL that a verification or a generation fetches has no fragment: it
\* is the url of the request with everything from "#" on removed, also when that
\* url cannot be parsed as a URL
C28_FetchedUrlHasNoFragment ==
  EngineFetched =>
    \A i \in DOMAIN call.value.requests :
      /\ ~Includes(call.value.requests[i].url, "#")
      /\ call.value.requests[i].url = BeforeHash(call.args.message.url)

(***************************************************************************)
(* The provenance engine                                                   *)
(***************************************************************************)

\* handleSourceVerification has returned after the fetch of the log gave a response
LogFetched ==
  /\ Returned("handleSourceVerification")
  /\ call.value.fetched.kind = "response"

\* the response chain of the log was redirected to a URL whose path begins with /login
RedirectedToLogin ==
  /\ call.value.fetched.redirected
  /\ StartsWith(Pathname(call.value.fetched.url), LOGIN)

\* the engine has answered AuthRequired
AnsweredAuthRequired == ~call.value.result.ok /\ call.value.result.authRequired

\* C29: the provenance engine returns AuthRequired exactly when the log response
\* has status 401 or was redirected to a URL whose path begins with /login; a
\* response that was not redirected and has another status is never auth-required,
\* whatever its URL
C29_AuthRequiredExactly ==
  LogFetched =>
    (AnsweredAuthRequired
       <=> (call.value.fetched.status = HTTP_UNAUTHORIZED \/ RedirectedToLogin))

TokenInBody ==
  \E i \in 1..Len(call.value.fetched.text) :
    \E j \in i..Len(call.value.fetched.text) :
      SubSeq(call.value.fetched.text, i, j) = call.args.message.token

\* C31: for a log response that is not auth-required, a status that is no success
\* gives a failure with the status, and a success status gives Found iff the token
\* is a substring of the body, NotFound otherwise
C31_FoundIffSubstring ==
  (LogFetched /\ ~AnsweredAuthRequired) =>
    LET result == call.value.result
        status == call.value.fetched.status
    IN IF status >= 200 /\ status <= 299
       THEN result.ok /\ (result.found <=> TokenInBody)
       ELSE ~result.ok /\ result.status = status

\* the token "abcd" was found inside the log "h=abcd;"
C31_Witness ==
  /\ LogFetched
  /\ call.value.fetched.text = <<"h", "=", "a", "b", "c", "d", ";">>
  /\ call.value.result.ok
  /\ call.value.result.found

(***************************************************************************)
(* Padding of base64url digests                                            *)
(***************************************************************************)
\* C32: a fragment whose base64url digest is followed by its "=" padding is
\* accepted, and its verification has the outcome of the fragment without padding
C32_PaddingStripped ==
  Returned("verifyDescriptor") =>
    /\ call.value.padded = call.value.plain
    /\ call.value.fetched.kind = "response" /\ ResponseOk(call.value.fetched)
         => call.value.padded \in {"match", "mismatch"}

(***************************************************************************)
(* Fetches that never complete                                             *)
(***************************************************************************)
\* the resource fetch of a verification, or the fetch of the log, of call chain k
\* is under way and the tab is shown as loading
LoadingOnFetch(t, k) ==
  /\ alive[t]
  /\ StateOf(t) = "loading"
  /\ fetches[t][k] # NULL
  /\ fetches[t][k].type \in {"VERIFY_PAGE_DIGEST", "VERIFY_SOURCE_REFERENCE"}

\* C33: a session does not stay in loading because of a fetch that never
\* completes: a resource fetch or log fetch under way either completes or is timed
\* out, after which the session is rejected (or the tab is closed)
C33_FetchesTimeOut ==
  \A t \in Tabs : \A k \in Threads :
    LoadingOnFetch(t, k) ~>
      (fetches[t][k] = NULL \/ StateOf(t) = "rejected" \/ ~alive[t])

(***************************************************************************)
(* Operations in flight                                                    *)
(***************************************************************************)
\* call chain k awaits the answer to an engine request: the request is queued, or
\* its fetch is under way, or its result has not been taken yet
Outstanding(t, k) == thr[t][k].pc \in {"verify", "source", "generate"}

\* the request of call chain k has been received, its fetch is under way, and no
\* other operation of the tab is outstanding
OnlyOutstanding(t, k) ==
  /\ alive[t]
  /\ Outstanding(t, k) /\ fetches[t][k] # NULL
  /\ \A j \in Threads \ {k} : ~Outstanding(t, j)

\* no state report of another call chain was applied after the request of k was
\* received: every other chain has not started, or has sent no state report yet,
\* or its first one is still queued
NoLaterReport(t, k) ==
  \A j \in Threads \ {k} :
    \/ thr[t][j].pc = "idle"
    \/ /\ results[t][j].generate = "none"
       /\ \/ thr[t][j].pc \in {"summary", "verify", "source"}
          \/ /\ thr[t][j].pc = "escReport"
             /\ \E i \in DOMAIN toBg[t] : toBg[t][i] = ReportMessage(j, "rejected")

\* the fetch of an engine request starts in this step
FetchStarts(t, k) == fetches[t][k] = NULL /\ fetches'[t][k] # NULL

LoadingWhenFetchStarts ==
  [][\A t \in Tabs : \A k \in Threads : FetchStarts(t, k) => StateOf(t)' = "loading"]_vars

\* C34: when the tracker receives a verification, generation or provenance
\* request, the tab is loading before the fetch starts, and it is loading wherever
\* that operation is the tab's only outstanding one and no later state report has
\* been applied
C34_LoadingWhileInFlight ==
  /\ LoadingWhenFetchStarts
  /\ [](\A t \in Tabs : \A k \in Threads :
          (OnlyOutstanding(t, k) /\ NoLaterReport(t, k)) => StateOf(t) = "loading")

\* C35: the content script of a tab has at most one verification, generation or
\* provenance request outstanding at any time, hashchange events and generation
\* prompts included
C35_OperationsSerialized ==
  \A t \in Tabs :
    alive[t] => Cardinality({k \in Threads : Outstanding(t, k)}) <= 1

(***************************************************************************)
(* The toolbar icon                                                        *)
(***************************************************************************)
\* a prompt is sent to the tab's content script in this step
Prompted(t) ==
  /\ Len(toCs'[t]) = Len(toCs[t]) + 1
  /\ toCs'[t][Len(toCs'[t])] = PromptMessage

\* the content script takes a prompt in this step
PromptHandled(t) ==
  /\ alive[t] /\ alive'[t]
  /\ toCs[t] # <<>> /\ Head(toCs[t]) = PromptMessage
  /\ toCs'[t] = Tail(toCs[t])

\* a call chain of the tab starts with handleTokenGenerationRequest in this step
GenerationStarts(t) ==
  \E k \in Threads : thr[t][k].pc = "idle" /\ thr'[t][k].pc = "genLoading"

\* C36: a click opens the tab's portal link if it has one, and prompts for a token
\* otherwise only if the tab's state is absent or unset; a prompt taken by a content
\* script that has a descriptor starts nothing, so that a generation starts only in
\* a tab that had no descriptor when the prompt was handled
C36_ClickOpensOrPrompts ==
  /\ [](\A t \in Tabs :
          IF LinkOf(t) # NoString
          THEN onClicked(t) = [does |-> "open", url |-> LinkOf(t)]
          ELSE onClicked(t).does = "prompt" => StateOf(t) \in {"absent", "unset"})
  /\ [][\A t \in Tabs :
          /\ Prompted(t) => (LinkOf(t) = NoString /\ StateOf(t) \in {"absent", "unset"})
          /\ (PromptHandled(t) /\ currentDescriptor[t] # NULL)
               => (thr'[t] = thr[t] /\ toBg'[t] = toBg[t])
          /\ GenerationStarts(t) => (PromptHandled(t) /\ currentDescriptor[t] = NULL)]_vars

\* the icon of a tab without token was clicked and its generation request is queued
C36_Witness ==
  \E t \in Tabs : \E k \in Threads :
    /\ alive[t] /\ thr[t][k].pc = "generate"
    /\ \E i \in DOMAIN toBg[t] : toBg[t][i].type = "GENERATE_PAGE_DIGEST"

(***************************************************************************)
(* Generation and the page's own token                                     *)
(***************************************************************************)
\* the value of the fragment's integrity parameter, NoString without one
FragmentIntegrity(t) == ParamsGet(URLSearchParams(Slice(hash[t], 1)), K_integrity)

\* handleTokenGenerationRequest takes the answer to its generation request
GenerationResultTaken(t) ==
  /\ alive[t] /\ alive'[t]
  /\ Awaiting(t, {"generate"})
  /\ toCs'[t] = Tail(toCs[t])

\* C37: a generation result that comes back after the fragment has acquired an
\* integrity parameter (hashchange during the generation) does not overwrite that
\* parameter with the generated digest
C37_GenerationKeepsPageToken ==
  [][\A t \in Tabs :
       (GenerationResultTaken(t) /\ FragmentIntegrity(t) # NoString)
          => FragmentIntegrity(t)' = FragmentIntegrity(t)]_vars

(***************************************************************************)
(* Provenance after the digest                                             *)
(***************************************************************************)
\* call chain k sends a provenance request in this step
SourceRequested(t, k) ==
  /\ Len(toBg'[t]) = Len(toBg[t]) + 1
  /\ toBg'[t][Len(toBg'[t])].type = "VERIFY_SOURCE_REFERENCE"
  /\ toBg'[t][Len(toBg'[t])].k = k

\* C38: a provenance request is sent only after the digest verification of the
\* same descriptor has answered matches=true, with that descriptor's digest as its
\* token and its source; none is sent after a failure or a mismatch, nor for a
\* descriptor without source
C38_ProvenanceAfterMatch ==
  /\ [][\A t \in Tabs : \A k \in Threads :
          SourceRequested(t, k) =>
            LET message == toBg'[t][Len(toBg'[t])]
                descriptor == results[t][k].descriptor
            IN /\ results[t][k].verify = "match"
               /\ descriptor # NULL
               /\ descriptor.source # NULL
               /\ message.source = descriptor.source
               /\ message.token = descriptor.digest]_vars
  /\ [](\A t \in Tabs : \A k \in Threads :
          (alive[t] /\ thr[t][k].pc = "source") => results[t][k].verify = "match")

\* the provenance request of a descriptor whose digest matched is queued
C38_Witness ==
  \E t \in Tabs : \E i \in DOMAIN toBg[t] :
    /\ toBg[t][i].type = "VERIFY_SOURCE_REFERENCE"
    /\ results[t][toBg[t][i].k].verify = "match"
    /\ toBg[t][i].token = results[t][toBg[t][i].k].descriptor.digest

(***************************************************************************)
(* The danger alert                                                        *)
(***************************************************************************)
\* call chain k sends its danger alert in this step
AlertSent(t, k) ==
  /\ Len(toBg'[t]) = Len(toBg[t]) + 1
  /\ toBg'[t][Len(toBg'[t])] = [k |-> k, type |-> "SHOW_DANGER_ALERT"]

\* the background takes a danger alert of the tab in this step
AlertProcessed(t) ==
  /\ toBg[t] # <<>> /\ isDangerAlertMessage(Head(toBg[t]))
  /\ notifications'[t] = notifications[t] + 1

AlertAfterRejectedReport ==
  [][\A t \in Tabs : \A k \in Threads :
       AlertSent(t, k) =>
         /\ thr[t][k].pc = "escReport"
         /\ toCs[t] # <<>> /\ Head(toCs[t]).k = k
         /\ \A i \in DOMAIN toBg[t] : toBg[t][i] # ReportMessage(k, "rejected")]_vars

\* C39: an escalation sends its danger alert after its report of rejected has been
\* answered, and when the background processes a danger alert of a tab the tab's
\* state is rejected, under every interleaving with re-verifications
C39_AlertOnlyWhenRejected ==
  /\ AlertAfterRejectedReport
  /\ [][\A t \in Tabs : AlertProcessed(t) => StateOf(t) = "rejected"]_vars

====
